---- MODULE Spec2Model ----
(***************************************************************************)
(* Model of the two stateful components of ghl_tui:                        *)
(*   - GHLClient (src/src/ghl/client.py): the rate-limit-aware request     *)
(*     layer, specification Spec, and its connection under `with` blocks,  *)
(*     specification ScopeSpec;                                            *)
(*   - ConfigManager (src/src/ghl/config.py): the profile / credential     *)
(*     store, specifications StoreSpec (every operation), ResolveSpec      *)
(*     (the reads over every combination of sources), CorruptSpec (over    *)
(*     unparsable files) and SharedSpec (two instances over one file,      *)
(*     their file operations interleaved);                                 *)
(*   - the worker threads of the contacts screen                           *)
(*     (src/src/ghl/tui/screens/contacts.py), each with a client of its    *)
(*     own, specification WorkersSpec, and the profile commands            *)
(*     (src/src/ghl/commands/config_cmd.py), specification CommandSpec.    *)
(* Python None is written NoneInt in integer slots, NoneStr in string      *)
(* slots and the empty sequence None in Optional[object] slots             *)
(* (Some(x) == <<x>>).  Times are milliseconds for durations and seconds   *)
(* for epoch values, as in the code.                                       *)
(***************************************************************************)
EXTENDS Integers, Sequences, FiniteSets, TLC

\* ------------------------------------------------------------------------
\* Python values
\* ------------------------------------------------------------------------
NoneInt == -1
EmptyStr == -2
NoneStr == "<None>"
None == <<>>
Some(x) == <<x>>
IsNone(o) == o = <<>>
Get(o) == o[1]
Max(a, b) == IF a >= b THEN a ELSE b

\* ------------------------------------------------------------------------
\* client.py: RateLimitInfo
\* ------------------------------------------------------------------------
DefaultLimit == 100
DefaultRemaining == 100
DefaultIntervalMs == 10000
LowWaterMark == 5
ProactiveDelayMs == 500
BufferMs == 100
MaxRetriesBound == 3

RATE_LIMIT_HEADERS ==
    {"x-ratelimit-remaining", "x-ratelimit-max", "x-ratelimit-limit"}

HeaderNames ==
    RATE_LIMIT_HEADERS \cup
    {"x-ratelimit-interval-milliseconds", "x-ratelimit-interval-ms",
     "x-ratelimit-reset"}

\* A header value is NoneInt (header absent: headers.get() is None),
\* EmptyStr (present, empty string) or n >= 0 (the decimal numeral of n).
\* Truthy(v) is Python's truth of the string: every non-empty string, "0"
\* included, is true.
Truthy(v) == v >= 0
OrElse(v, w) == IF Truthy(v) THEN v ELSE w

has_rate_limit_headers(headers) ==
    \E name \in RATE_LIMIT_HEADERS : headers[name] # NoneInt

RateLimitInfo(limit, remaining, reset, interval_ms) ==
    [limit |-> limit, remaining |-> remaining, reset |-> reset,
     interval_ms |-> interval_ms]

from_headers(headers) ==
    LET interval_ms ==
            OrElse(headers["x-ratelimit-interval-milliseconds"],
                   OrElse(headers["x-ratelimit-interval-ms"], DefaultIntervalMs))
        reset_val == headers["x-ratelimit-reset"]
        reset == IF Truthy(reset_val) /\ reset_val > 0 THEN reset_val ELSE NoneInt
    IN  RateLimitInfo(
            OrElse(headers["x-ratelimit-max"],
                   OrElse(headers["x-ratelimit-limit"], DefaultLimit)),
            OrElse(headers["x-ratelimit-remaining"], DefaultRemaining),
            reset,
            interval_ms)

\* ------------------------------------------------------------------------
\* Inputs of the client: server responses, clock readings, request() calls
\* ------------------------------------------------------------------------
Hdr(remaining, max, limit, interval, interval_alt, reset) ==
    [name \in HeaderNames |->
        CASE name = "x-ratelimit-remaining" -> remaining
          [] name = "x-ratelimit-max" -> max
          [] name = "x-ratelimit-limit" -> limit
          [] name = "x-ratelimit-interval-milliseconds" -> interval
          [] name = "x-ratelimit-interval-ms" -> interval_alt
          [] name = "x-ratelimit-reset" -> reset]

HeaderSamples ==
    { Hdr(NoneInt, NoneInt, NoneInt, NoneInt, NoneInt, NoneInt),
      Hdr(NoneInt, NoneInt, NoneInt, 20000, NoneInt, 1030),
      Hdr(NoneInt, NoneInt, NoneInt, NoneInt, 5000, NoneInt),
      Hdr(3, 100, NoneInt, NoneInt, NoneInt, NoneInt),
      Hdr(4, NoneInt, 200, NoneInt, 5000, NoneInt),
      Hdr(5, 100, NoneInt, NoneInt, NoneInt, 0),
      Hdr(0, 50, NoneInt, 20000, NoneInt, 1030),
      Hdr(NoneInt, 100, NoneInt, NoneInt, NoneInt, NoneInt),
      Hdr(NoneInt, NoneInt, 200, 20000, 5000, NoneInt),
      Hdr(EmptyStr, NoneInt, NoneInt, NoneInt, NoneInt, NoneInt),
      Hdr(60, EmptyStr, 200, EmptyStr, 5000, 1030) }

StatusSamples == {200, 204, 404, 429, 500}
\* A body is one of these texts, named by what response.json() makes of it:
\*   "json"        {"message": "boom"}   an object with a message
\*   "json-error"  {"message": "", "error": "nope"}   an object whose message
\*                 is empty or missing and whose error is not
\*   "json-empty"  {}    an object with neither (str(body) is "{}")
\*   "null"        null  (None; str(body) is "None")
\*   "false"       false (a falsy scalar, as 0 or ""; str(body) is "False")
\*   "array"       [1, 2] (no .get: as a number or a string that is truthy)
\*   "not-json"    <html> text that response.json() cannot parse
\*   "empty"       the empty body, which it cannot parse either
BodySamples ==
    {"json", "json-error", "json-empty", "null", "false", "array", "not-json",
     "empty"}
ObjectBodies == {"json", "json-error", "json-empty"}
ParsedBodies == ObjectBodies \cup {"null", "false", "array"}
NoHeaders == Hdr(NoneInt, NoneInt, NoneInt, NoneInt, NoneInt, NoneInt)
NowSamples == {1000, 1025}

\* The body of a 429 is never read (line 144 raises first): one body stands
\* for all of them.  Body and headers are read independently of each other:
\* every header sample comes with three bodies, every body without headers.
Responses ==
    { r \in [status_code : StatusSamples, headers : HeaderSamples,
             body : BodySamples] :
        /\ r.status_code = 429 => r.body = "json"
        /\ r.body \notin {"json", "null", "not-json"} => r.headers = NoHeaders }

\* Query parameters are a Python dict: a sequence of <<key, value>> pairs in
\* insertion order, NoneStr for a None value; params itself is Optional.
ParamSamples ==
    { None,
      Some(<<>>),
      Some(<< <<"query", "x">>, <<"limit", NoneStr>> >>),
      Some(<< <<"locationId", "callerLoc">> >>),
      Some(<< <<"location_id", NoneStr>> >>) }

Calls ==
    [method : {"GET", "POST"}, path : {"/contacts/"}, params : ParamSamples,
     json : {NoneStr}, files : {NoneStr}, max_retries : 0 .. MaxRetriesBound,
     include_location_id : BOOLEAN, location_param : {"locationId"}]

\* The calls tried: every max_retries with the plain call, every shape of
\* params with one retry allowed.
CallSamples ==
    { c \in Calls :
        /\ c.method = "POST" => c.params = None
        /\ ~c.include_location_id => c.params \in {None, Some(<<>>)}
        /\ \/ c.method = "GET" /\ c.params = None /\ c.include_location_id
           \/ c.max_retries = 2 }

Keys(params) == {params[i][1] : i \in 1 .. Len(params)}
NotNoneValue(pair) == pair[2] # NoneStr

\* request(), lines 192-201: drop None values, then inject the location.
clean_params(params) ==
    IF ~IsNone(params) /\ Len(Get(params)) > 0
    THEN Some(SelectSeq(Get(params), NotNoneValue))
    ELSE params

\* Mutant: the client's location replaces a value the caller gave.
add_location_overriding(params, include_location_id, location_param, loc) ==
    IF include_location_id /\ loc # NoneStr /\ loc # ""
    THEN LET p == IF IsNone(params) THEN <<>> ELSE Get(params)
             Other(pair) == pair[1] # location_param
         IN  Some(Append(SelectSeq(p, Other), <<location_param, loc>>))
    ELSE params

add_location(params, include_location_id, location_param, loc) ==
    IF include_location_id /\ loc # NoneStr /\ loc # ""
    THEN LET p == IF IsNone(params) THEN <<>> ELSE Get(params)
         IN  IF location_param \notin Keys(p)
             THEN Some(Append(p, <<location_param, loc>>))
             ELSE Some(p)
    ELSE params

\* ------------------------------------------------------------------------
\* State
\* ------------------------------------------------------------------------
VARIABLES
    _rate_limit_info,   \* GHLClient._rate_limit_info: None or Some(RateLimitInfo)
    _client,            \* GHLClient._client: "None" or "open"
    location_id,        \* GHLClient.location_id
    pc,                 \* "idle": no request() running; "loop": an attempt is due;
                        \* "waiting": blocked in httpx; "sleeping": in time.sleep
    call,               \* arguments of the running (or last) request()
    params,             \* the local params after lines 192-201
    attempt,            \* loop variable of `for attempt in range(max_retries)`
    sent,               \* HTTP calls issued by the running (or last) request()
    response,           \* None or Some(last response handled by it)
    sleep_kind,         \* sleep made while handling it: "none", "backoff", "proactive"
    sleep_ms,           \* its duration in ms
    backoffs,           \* number of backoff sleeps made by the running request()
    outcome,            \* how the last request() ended
    last_headers,       \* None or Some(headers of the last response this client handled)
    connections,        \* number of httpx.Client objects created and not closed
    scope               \* "outside", or "inside" a `with client:` block, or "exited"

VARIABLES
    profiles_file,      \* ~/.ghl_tui/profiles.json
    _profiles_data,     \* ConfigManager._profiles_data: None or Some(data)
    credentials_file,   \* ~/.ghl_tui/credentials.json
    config_file,        \* ~/.ghl_tui/config.json
    _config,            \* ConfigManager._config: None or Some(GHLConfig)
    keyring_available,  \* do `import keyring` and the keyring calls succeed?
    keyring_token,      \* password stored for ("ghl_tui", "api_token")
    env_token,          \* os.environ.get("GHL_API_TOKEN")
    env_location,       \* os.environ.get("GHL_LOCATION_ID")
    op,                 \* the last ConfigManager call: its name and arguments
    ret,                \* what it returned, or the exception it raised
    _profiles_data_2,   \* _profiles_data of a second ConfigManager on the same files
    instance,           \* the ConfigManager that made the call op: "first", "second"
    running             \* per ConfigManager, the call it is in when two of them
                        \* run side by side: its next file operation, the call,
                        \* the file it holds open for writing, the value it
                        \* is going to return

VARIABLES
    workers,            \* per TUI worker thread: the GHLClient it made in its
                        \* `with` statement (the object's attributes) and the
                        \* thread's position in the worker function
    worker              \* who made the last step: "first" (the client above)
                        \* or the name of a worker

client_vars ==
    <<_rate_limit_info, _client, location_id, pc, call, params, attempt, sent,
      response, sleep_kind, sleep_ms, backoffs, outcome, last_headers,
      connections, scope>>

store_vars ==
    <<profiles_file, _profiles_data, credentials_file, config_file, _config,
      keyring_available, keyring_token, env_token, env_location, op, ret,
      _profiles_data_2, instance, running>>

worker_vars == <<workers, worker>>

vars == <<client_vars, store_vars, worker_vars>>

\* How a request() ended: the value returned, or the exception raised with
\* its status_code, message (value) and response_body.
NoOutcome ==
    [kind |-> "none", status_code |-> NoneInt, value |-> "none",
     response_body |-> NoneStr]
Returned(value) ==
    [kind |-> "return", status_code |-> NoneInt, value |-> value,
     response_body |-> NoneStr]
APIError(status_code, message, response_body) ==
    [kind |-> "APIError", status_code |-> status_code, value |-> message,
     response_body |-> response_body]
TransportError ==
    [kind |-> "TransportError", status_code |-> NoneInt, value |-> "none",
     response_body |-> NoneStr]
RuntimeError ==
    [kind |-> "RuntimeError", status_code |-> NoneInt, value |-> "Exhausted retries",
     response_body |-> NoneStr]

\* ------------------------------------------------------------------------
\* client.py: _handle_rate_limit
\* ------------------------------------------------------------------------
\* Mutant: the update without the has_rate_limit_headers guard.
updated_info_unguarded(info, resp) == Some(from_headers(resp.headers))

\* Mutant: the first RateLimitInfo recorded is kept for good.
updated_info_first_only(info, resp) ==
    IF IsNone(info) /\ has_rate_limit_headers(resp.headers)
    THEN Some(from_headers(resp.headers))
    ELSE info

\* Mutant: a 429 answered to a client without a record stores the defaults
\* its backoff is computed from.
updated_info_429_recorded(info, resp) ==
    IF \/ has_rate_limit_headers(resp.headers)
       \/ resp.status_code = 429 /\ IsNone(info)
    THEN Some(from_headers(resp.headers))
    ELSE info

\* The RateLimitInfo held after lines 124-125.
updated_info(info, resp) ==
    IF has_rate_limit_headers(resp.headers)
    THEN Some(from_headers(resp.headers))
    ELSE info

\* Mutant: a client without a record backs off by the defaults, whatever the
\* 429 says.
wait_time_defaults(info, resp, now) ==
    LET rli == IF ~IsNone(info) THEN Get(info)
               ELSE RateLimitInfo(DefaultLimit, DefaultRemaining, NoneInt,
                                  DefaultIntervalMs)
        base == rli.interval_ms
    IN  (IF rli.reset # NoneInt /\ rli.reset # 0
         THEN Max(base, (rli.reset - now) * 1000)
         ELSE base) + BufferMs

\* Lines 129-133: the backoff of a 429, in ms.
wait_time(info, resp, now) ==
    LET rli == IF ~IsNone(info) THEN Get(info) ELSE from_headers(resp.headers)
        base == rli.interval_ms
    IN  (IF rli.reset # NoneInt /\ rli.reset # 0
         THEN Max(base, (rli.reset - now) * 1000)
         ELSE base) + BufferMs

\* Mutant: the proactive delay also at remaining = 5.
rate_limit_sleep_inclusive(info, resp, now) ==
    IF resp.status_code = 429
    THEN <<"backoff", wait_time(info, resp, now)>>
    ELSE IF ~IsNone(info) /\ Get(info).remaining <= LowWaterMark
         THEN <<"proactive", ProactiveDelayMs>>
         ELSE <<"none", 0>>

\* Lines 127-138: <<kind, duration>> of the sleep made for resp, info being
\* the RateLimitInfo after the update.
rate_limit_sleep(info, resp, now) ==
    IF resp.status_code = 429
    THEN <<"backoff", wait_time(info, resp, now)>>
    ELSE IF ~IsNone(info) /\ Get(info).remaining < LowWaterMark
         THEN <<"proactive", ProactiveDelayMs>>
         ELSE <<"none", 0>>

\* ------------------------------------------------------------------------
\* client.py: _handle_response, after _handle_rate_limit
\* ------------------------------------------------------------------------
\* response.text of each body sample (quotes left out).
response_text(body) ==
    CASE body = "json" -> "{message: boom}"
      [] body = "json-error" -> "{message: , error: nope}"
      [] body = "json-empty" -> "{}"
      [] body = "null" -> "null"
      [] body = "false" -> "false"
      [] body = "array" -> "[1, 2]"
      [] body = "not-json" -> "<html>"
      [] body = "empty" -> ""

\* response.json() of a body that parses, written as Python prints it.
response_json(body) ==
    CASE body = "null" -> "None"
      [] body = "false" -> "False"
      [] body \in ParsedBodies \ {"null", "false"} -> response_text(body)

\* Lines 147-154: the message of the APIError of a status >= 400.  With a
\* parsed body it is (body or {}).get("message") or (body or {}).get("error")
\* or str(body); a truthy body without .get and a body that does not parse
\* end in the except branch: response.text or "HTTP <status>".
error_message(resp) ==
    CASE resp.body = "json" -> "boom"
      [] resp.body = "json-error" -> "nope"
      [] resp.body \in {"json-empty", "null", "false"} -> response_json(resp.body)
      [] resp.body \in {"array", "not-json"} -> response_text(resp.body)
      [] resp.body = "empty" -> "HTTP " \o ToString(resp.status_code)

\* Line 154: body is what response.json() returned, None if it raised (or
\* returned None).
error_body(resp) ==
    IF resp.body \in ParsedBodies \ {"null"} THEN response_json(resp.body)
    ELSE NoneStr

\* Lines 159-162: response.json() returned as it is, whatever it is, and
\* {"text": response.text} for a body that does not parse.
success_value(resp) ==
    IF resp.body \in ParsedBodies THEN response_json(resp.body)
    ELSE "{text: " \o response_text(resp.body) \o "}"

handle_response(resp) ==
    IF resp.status_code = 429
    THEN APIError(429, "Rate limited. Please wait and try again.", NoneStr)
    ELSE IF resp.status_code >= 400
         THEN APIError(resp.status_code, error_message(resp), error_body(resp))
         ELSE IF resp.status_code = 204
              THEN Returned("{}")
              ELSE Returned(success_value(resp))

\* Mutants: a 429 retried without counting the attempts left; every error
\* status retried while attempts are left.
retries_uncounted(err, att, max_retries) ==
    err.kind = "APIError" /\ err.status_code = 429

retries_any_status(err, att, max_retries) ==
    err.kind = "APIError" /\ att < max_retries - 1

\* request(), lines 227-230: is the APIError swallowed and the loop continued?
retries(err, att, max_retries) ==
    err.kind = "APIError" /\ err.status_code = 429 /\ att < max_retries - 1

\* Mutant: a connection is created at every use.
client_always_new(_c, conns) == <<"open", conns + 1>>

\* The client property, lines 99-108: <<_client, connections>> after a use;
\* httpx.Client is constructed only if _client is None.
client(_c, conns) ==
    IF _c = "None" THEN <<"open", conns + 1>> ELSE <<_c, conns>>

\* close(), lines 321-325: <<_client, connections>> after the call.
close(_c, conns) ==
    IF _c # "None" THEN <<"None", conns - 1>> ELSE <<_c, conns>>

wire_request(c, p) ==
    [method |-> c.method, path |-> c.path, params |-> p, json |-> c.json,
     files |-> c.files]

\* ------------------------------------------------------------------------
\* Actions of the client
\* ------------------------------------------------------------------------
\* The worker functions of ContactsView, tui/screens/contacts.py lines
\* 298-344, each run in a thread of its own (@work(thread=True)).
WorkerNames == {"load_contacts", "load_contact_detail"}
WorkerMaxRetries == 3

\* A worker thread that has not run yet: it has made no client.
NoWorker ==
    [scope |-> "none", location |-> NoneStr, location_id |-> NoneStr,
     _rate_limit_info |-> None, _client |-> "None", step |-> 0, pc |-> "idle",
     call |-> [method |-> "GET", path |-> "", params |-> None, json |-> NoneStr,
               files |-> NoneStr, max_retries |-> WorkerMaxRetries,
               include_location_id |-> TRUE, location_param |-> "locationId"],
     params |-> None, attempt |-> 0, response |-> None, sleep_kind |-> "none",
     outcome |-> NoOutcome, result |-> "none", rli |-> None]

\* A step of the first client leaves the workers' clients alone.
FirstClient ==
    /\ worker' = "first"
    /\ UNCHANGED workers

ClientInit ==
    /\ _rate_limit_info = None
    /\ _client = "None"
    /\ location_id \in {NoneStr, "loc1"}
    /\ pc = "idle"
    /\ call \in {c \in CallSamples : c.max_retries = MaxRetriesBound /\ c.method = "GET"
                                      /\ c.params = None /\ c.include_location_id}
    /\ params = None
    /\ attempt = 0
    /\ sent = <<>>
    /\ response = None
    /\ sleep_kind = "none"
    /\ sleep_ms = 0
    /\ backoffs = 0
    /\ outcome = NoOutcome
    /\ last_headers = None
    /\ connections = 0
    /\ scope = "outside"
    /\ workers = [w \in WorkerNames |-> NoWorker]
    /\ worker = "first"

\* request(): entry, lines 192-203, up to the first test of the for loop.
RequestCall(c) ==
    /\ pc = "idle"
    /\ call' = c
    /\ params' = add_location(clean_params(c.params), c.include_location_id,
                              c.location_param, location_id)
    /\ attempt' = 0
    /\ sent' = <<>>
    /\ response' = None
    /\ sleep_kind' = "none"
    /\ sleep_ms' = 0
    /\ backoffs' = 0
    /\ IF 0 < c.max_retries
       THEN pc' = "loop" /\ outcome' = NoOutcome
       ELSE pc' = "idle" /\ outcome' = RuntimeError
    /\ UNCHANGED <<_rate_limit_info, _client, location_id, last_headers,
                   connections, scope>>
    /\ FirstClient
    /\ UNCHANGED store_vars

\* request(), lines 227-230 after _handle_response: <<pc, attempt, outcome>>
\* once the response resp of attempt att is dealt with: the next attempt is
\* due, or request() has returned or raised.
after_response(resp, att, max_retries) ==
    LET res == handle_response(resp)
    IN  IF retries(res, att, max_retries)
        THEN <<"loop", att + 1, NoOutcome>>
        ELSE <<"idle", att, res>>

\* One iteration of the loop, lines 204-223: self.client is made if there is
\* none and the HTTP call is issued; the thread now waits for the server.
Send ==
    /\ pc = "loop"
    /\ attempt < call.max_retries
    /\ _client' = client(_client, connections)[1]
    /\ connections' = client(_client, connections)[2]
    /\ sent' = Append(sent, wire_request(call, params))
    /\ pc' = "waiting"
    /\ UNCHANGED <<_rate_limit_info, location_id, call, params, attempt, response,
                   sleep_kind, sleep_ms, backoffs, outcome, last_headers, scope>>
    /\ FirstClient
    /\ UNCHANGED store_vars

\* The server answers resp at clock reading now: _handle_rate_limit, lines
\* 119-138, updates the record and starts its sleep, during which the thread
\* is blocked inside request(); without a sleep the iteration ends at once
\* (lines 144-162 and 227-230).
Receive(resp, now) ==
    /\ pc = "waiting"
    /\ LET info == updated_info(_rate_limit_info, resp)
           sl == rate_limit_sleep(info, resp, now)
           after == after_response(resp, attempt, call.max_retries)
       IN  /\ response' = Some(resp)
           /\ last_headers' = Some(resp.headers)
           /\ _rate_limit_info' = info
           /\ sleep_kind' = sl[1]
           /\ sleep_ms' = sl[2]
           /\ backoffs' = IF sl[1] = "backoff" THEN backoffs + 1 ELSE backoffs
           /\ IF sl[1] # "none"
              THEN /\ pc' = "sleeping"
                   /\ UNCHANGED <<attempt, outcome>>
              ELSE /\ pc' = after[1]
                   /\ attempt' = after[2]
                   /\ outcome' = after[3]
    /\ UNCHANGED <<_client, connections, sent, location_id, call, params, scope>>
    /\ FirstClient
    /\ UNCHANGED store_vars

\* time.sleep returns (line 133 or 138): _handle_response goes on to raise
\* or return, and request() to retry, raise or return.
Wake ==
    /\ pc = "sleeping"
    /\ LET after == after_response(Get(response), attempt, call.max_retries)
       IN  /\ pc' = after[1]
           /\ attempt' = after[2]
           /\ outcome' = after[3]
    /\ UNCHANGED <<_rate_limit_info, _client, connections, sent, location_id, call,
                   params, response, sleep_kind, sleep_ms, backoffs, last_headers,
                   scope>>
    /\ FirstClient
    /\ UNCHANGED store_vars

\* Mutant: a transport failure is treated like a 429, slept on and retried
\* while attempts are left.
TransportFailure_retried ==
    /\ pc = "waiting"
    /\ IF attempt < call.max_retries - 1
       THEN /\ pc' = "loop"
            /\ attempt' = attempt + 1
            /\ outcome' = NoOutcome
            /\ sleep_kind' = "backoff"
            /\ sleep_ms' = DefaultIntervalMs + BufferMs
            /\ backoffs' = backoffs + 1
       ELSE /\ pc' = "idle"
            /\ attempt' = attempt
            /\ outcome' = TransportError
            /\ sleep_kind' = "none"
            /\ sleep_ms' = 0
            /\ backoffs' = backoffs
    /\ UNCHANGED <<_rate_limit_info, _client, connections, sent, location_id, call,
                   params, response, last_headers, scope>>
    /\ FirstClient
    /\ UNCHANGED store_vars

\* self.client.request raises instead of answering (timeout, connection
\* reset): not an APIError, so it leaves request() through `except APIError`.
TransportFailure ==
    /\ pc = "waiting"
    /\ pc' = "idle"
    /\ outcome' = TransportError
    /\ sleep_kind' = "none"
    /\ sleep_ms' = 0
    /\ UNCHANGED <<_rate_limit_info, _client, connections, sent, location_id, call,
                   params, attempt, response, backoffs, last_headers, scope>>
    /\ FirstClient
    /\ UNCHANGED store_vars

\* The client property, lines 99-108, read outside request() by the thread
\* that owns the client: the httpx.Client is made if there is none.  A
\* GHLClient is made and used by one thread (every one in the repository is
\* the target of a `with` statement inside one function or worker), so the
\* test of line 102 and the assignment of line 103 are never interleaved
\* with another read of the property.
ClientAccess ==
    /\ pc = "idle"
    /\ _client' = client(_client, connections)[1]
    /\ connections' = client(_client, connections)[2]
    /\ UNCHANGED <<_rate_limit_info, location_id, pc, call, params, attempt, sent,
                   response, sleep_kind, sleep_ms, backoffs, outcome, last_headers,
                   scope>>
    /\ FirstClient
    /\ UNCHANGED store_vars

\* close(), lines 321-325: nothing happens without a connection.
Close ==
    /\ pc = "idle"
    /\ _client' = close(_client, connections)[1]
    /\ connections' = close(_client, connections)[2]
    /\ UNCHANGED <<_rate_limit_info, location_id, pc, call, params, attempt, sent,
                   response, sleep_kind, sleep_ms, backoffs, outcome, last_headers,
                   scope>>
    /\ FirstClient
    /\ UNCHANGED store_vars

\* __enter__, lines 327-328: `with client:` is entered; nothing is acquired.
Enter ==
    /\ pc = "idle"
    /\ scope # "inside"
    /\ scope' = "inside"
    /\ UNCHANGED <<_rate_limit_info, _client, location_id, pc, call, params, attempt,
                   sent, response, sleep_kind, sleep_ms, backoffs, outcome,
                   last_headers, connections>>
    /\ FirstClient
    /\ UNCHANGED store_vars

\* __exit__, lines 330-331: the block is left, by its end or by an exception
\* of the last request() passing through it; close() is called either way.
Exit ==
    /\ pc = "idle"
    /\ scope = "inside"
    /\ scope' = "exited"
    /\ _client' = close(_client, connections)[1]
    /\ connections' = close(_client, connections)[2]
    /\ UNCHANGED <<_rate_limit_info, location_id, pc, call, params, attempt, sent,
                   response, sleep_kind, sleep_ms, backoffs, outcome, last_headers>>
    /\ FirstClient
    /\ UNCHANGED store_vars

\* ------------------------------------------------------------------------
\* config.py: the data of the store
\* ------------------------------------------------------------------------
\* A file is absent, unparsable, or holds a JSON document.  The profiles
\* document is {active, profiles}; profiles is a dict, kept as the sequence
\* of its entries in insertion order.  A raw entry read from an edited file
\* may lack a key (NoneStr).
Falsy(str) == str = NoneStr \/ str = ""

Entry(name, api_token, loc) ==
    [name |-> name, api_token |-> api_token, location_id |-> loc]

ProfilesData(active, profiles) == [active |-> active, profiles |-> profiles]

EmptyData == ProfilesData(NoneStr, <<>>)

AbsentFile == [kind |-> "absent", data |-> EmptyData]
MalformedFile == [kind |-> "malformed", data |-> EmptyData]
JsonFile(data) == [kind |-> "json", data |-> data]

NoCredentials == [kind |-> "absent", api_token |-> NoneStr]
MalformedCredentials == [kind |-> "malformed", api_token |-> NoneStr]
Credentials(api_token) == [kind |-> "json", api_token |-> api_token]

GHLConfig(loc) == [location_id |-> loc]
NoConfigFile == [kind |-> "absent", config |-> GHLConfig(NoneStr)]
MalformedConfigFile == [kind |-> "malformed", config |-> GHLConfig(NoneStr)]
ConfigFile(config) == [kind |-> "json", config |-> config]

NameOrder == <<"a", "b", "c">>
Names == {NameOrder[i] : i \in 1 .. Len(NameOrder)}
Tokens == {"t1", "t2"}
Locations == {"l1", "l2"}
\* Profiles "a" and "b" are added by calls; "c" is met in profiles files.
AddNames == {"a", "b"}
\* update_config is called with a new location or without one.
UpdateLocations == {"l2", NoneStr}
SaveLocations == {"l2", NoneStr}

ProfileNames(profiles) == {profiles[i].name : i \in 1 .. Len(profiles)}

Lookup(profiles, name) ==
    profiles[CHOOSE i \in 1 .. Len(profiles) : profiles[i].name = name]

\* Mutant: every assignment adds an entry, a known key included.
DictSet_appending(profiles, entry) == Append(profiles, entry)

\* profiles[name] = value: in place for a known key, appended otherwise.
DictSet(profiles, entry) ==
    IF entry.name \in ProfileNames(profiles)
    THEN [i \in 1 .. Len(profiles) |->
            IF profiles[i].name = entry.name THEN entry ELSE profiles[i]]
    ELSE Append(profiles, entry)

\* del profiles[name]
DictDel(profiles, name) ==
    LET Other(e) == e.name # name IN SelectSeq(profiles, Other)

\* _load_profiles_data, lines 90-106: the cached data, else the file's.
load_profiles_data(cache, file) ==
    IF ~IsNone(cache) THEN Get(cache)
    ELSE IF file.kind = "json" THEN file.data
    ELSE EmptyData

\* _load_config / config, lines 50-65.
load_config(cache, file) ==
    IF ~IsNone(cache) THEN Get(cache)
    ELSE IF file.kind = "json" THEN file.config
    ELSE GHLConfig(NoneStr)

\* Mutant: the stored pointer returned without the membership test.
get_active_profile_name_raw(data) == data.active

\* get_active_profile_name, lines 114-120.
get_active_profile_name(data) ==
    IF ~Falsy(data.active) /\ data.active \in ProfileNames(data.profiles)
    THEN data.active
    ELSE NoneStr

\* list_profiles, lines 132-137: sorted by name, flagged with name == active.
list_profiles(data) ==
    LET Known(n) == n \in ProfileNames(data.profiles)
        sorted == SelectSeq(NameOrder, Known)
    IN  [i \in 1 .. Len(sorted) |-> <<sorted[i], sorted[i] = data.active>>]

\* get_profile, lines 139-149: None or Some(ProfileModel).
get_profile(data, name) ==
    IF name \notin ProfileNames(data.profiles) THEN None
    ELSE LET raw == Lookup(data.profiles, name)
         IN  IF raw.api_token = NoneStr \/ raw.location_id = NoneStr
             THEN None
             ELSE Some([api_token |-> raw.api_token, location_id |-> raw.location_id])

\* The active profile as get_token, get_location_id, set_token and
\* update_config find it: None unless the active name is known and its entry
\* validates.
active_profile(data) ==
    LET active_name == get_active_profile_name(data)
    IN  IF active_name = NoneStr THEN None ELSE get_profile(data, active_name)

\* Mutant: the added profile always becomes the active one.
added_always_active(data, name, api_token, loc) ==
    ProfilesData(name, DictSet(data.profiles, Entry(name, api_token, loc)))

\* add_or_update_profile, lines 153-158: the data it leaves in memory.
added(data, name, api_token, loc) ==
    LET profiles == DictSet(data.profiles, Entry(name, api_token, loc))
    IN  ProfilesData(
            IF Falsy(data.active) \/ data.active \notin ProfileNames(profiles)
            THEN name ELSE data.active,
            profiles)

\* Mutant: the pointer is not reassigned when its profile is removed.
removed_keeps_pointer(data, name) ==
    ProfilesData(data.active, DictDel(data.profiles, name))

\* Mutant: removing the active profile clears the pointer even when other
\* profiles remain.
removed_to_none(data, name) ==
    ProfilesData(IF data.active = name THEN NoneStr ELSE data.active,
                 DictDel(data.profiles, name))

\* remove_profile, lines 168-172: next(iter(profiles), None) is the first
\* remaining key in insertion order.
removed(data, name) ==
    LET profiles == DictDel(data.profiles, name)
    IN  ProfilesData(
            IF data.active = name
            THEN (IF Len(profiles) > 0 THEN profiles[1].name ELSE NoneStr)
            ELSE data.active,
            profiles)

\* Mutant: the active profile consulted before the environment.
get_token_profile_first(env, data, creds, kr_ok, kr_token) ==
    IF ~IsNone(active_profile(data)) THEN Get(active_profile(data)).api_token
    ELSE IF ~Falsy(env) THEN env
    ELSE IF creds.kind = "json" THEN creds.api_token
    ELSE IF kr_ok /\ ~Falsy(kr_token) THEN kr_token
    ELSE NoneStr

\* get_token, lines 183-215, from the environment, the loaded profiles, the
\* credentials file and the keyring.
get_token(env, data, creds, kr_ok, kr_token) ==
    IF ~Falsy(env) THEN env
    ELSE IF ~IsNone(active_profile(data)) THEN Get(active_profile(data)).api_token
    ELSE IF creds.kind = "json" THEN creds.api_token
    ELSE IF kr_ok /\ ~Falsy(kr_token) THEN kr_token
    ELSE NoneStr

\* get_location_id, lines 254-266.
get_location_id(env, data, config) ==
    IF ~Falsy(env) THEN env
    ELSE IF ~IsNone(active_profile(data)) THEN Get(active_profile(data)).location_id
    ELSE config.location_id

\* ------------------------------------------------------------------------
\* Actions of the store
\* ------------------------------------------------------------------------
Op(name, args) == [name |-> name, args |-> args]
Ok(value) == [raised |-> FALSE, value |-> value]
Raised(exc) == [raised |-> TRUE, value |-> exc]

Data == load_profiles_data(_profiles_data, profiles_file)

\* The two ConfigManager instances of two processes, and an instance that is
\* in no call.
Instances == {"first", "second"}
NotRunning ==
    [pc |-> "idle", op |-> Op("__init__", <<>>), fd |-> "none", value |-> NoneStr]
NoCalls == [i \in Instances |-> NotRunning]

\* A call made on the first ConfigManager while the second is in none leaves
\* the second one's cache alone.
FirstInstance ==
    /\ instance' = "first"
    /\ UNCHANGED <<_profiles_data_2, running>>
Config == load_config(_config, config_file)

\* add_or_update_profile, lines 151-160.
AddOrUpdateProfile(name, api_token, loc) ==
    LET data == added(Data, name, api_token, loc)
    IN  /\ _profiles_data' = Some(data)
        /\ profiles_file' = JsonFile(data)
        /\ op' = Op("add_or_update_profile", <<name, api_token, loc>>)
        /\ ret' = Ok(NoneStr)
        /\ UNCHANGED <<credentials_file, config_file, _config, keyring_available,
                       keyring_token, env_token, env_location>>
        /\ FirstInstance
        /\ UNCHANGED <<client_vars, worker_vars>>

\* str.strip() on the strings given to the command: surrounding blanks go.
strip(str) ==
    CASE str = " " -> ""
      [] str = " a " -> "a"
      [] OTHER -> str

\* `ghl config profiles add NAME --token T --location-id L`, config_cmd.py
\* lines 76-91: a blank token or location is refused before the store is
\* touched; otherwise the stripped values go to add_or_update_profile and the
\* success line "Profile 'NAME' saved and set as active" is printed.
ProfilesAdd(name, token, loc) ==
    /\ op' = Op("profiles add", <<name, token, loc>>)
    /\ IF strip(token) = "" \/ strip(loc) = ""
       THEN /\ ret' = Raised("ClickException")
            /\ UNCHANGED <<_profiles_data, profiles_file>>
       ELSE LET data == added(Data, strip(name), strip(token), strip(loc))
            IN  /\ _profiles_data' = Some(data)
                /\ profiles_file' = JsonFile(data)
                /\ ret' = Ok("saved and set as active")
    /\ UNCHANGED <<credentials_file, config_file, _config, keyring_available,
                   keyring_token, env_token, env_location>>
    /\ FirstInstance
    /\ UNCHANGED <<client_vars, worker_vars>>

\* `ghl config profiles use NAME`, config_cmd.py lines 94-102:
\* set_active_profile(NAME) is called; its ValueError for an unknown name
\* leaves the command as a ClickException, and a switch made is reported.
ProfilesUse(name) ==
    /\ op' = Op("profiles use", <<name>>)
    /\ IF name \notin ProfileNames(Data.profiles)
       THEN /\ _profiles_data' = Some(Data)
            /\ ret' = Raised("ClickException")
            /\ UNCHANGED profiles_file
       ELSE /\ _profiles_data' = Some(ProfilesData(name, Data.profiles))
            /\ profiles_file' = JsonFile(ProfilesData(name, Data.profiles))
            /\ ret' = Ok("Switched to profile")
    /\ UNCHANGED <<credentials_file, config_file, _config, keyring_available,
                   keyring_token, env_token, env_location>>
    /\ FirstInstance
    /\ UNCHANGED <<client_vars, worker_vars>>

\* `ghl config profiles remove NAME`, config_cmd.py lines 105-114.  The
\* confirmation option asks "Remove this profile?" before the function body
\* runs: an answer of no aborts the command (click.Abort) with the store
\* neither read nor written; --yes, or an answer of yes, lets it run.
\* remove_profile(NAME) is then called, its ValueError for an unknown name
\* leaves the command as a ClickException, and a removal made is reported.
ProfilesRemove(name, confirmed) ==
    /\ op' = Op("profiles remove", <<name>>)
    /\ IF ~confirmed
       THEN /\ ret' = Raised("Abort")
            /\ UNCHANGED <<_profiles_data, profiles_file>>
       ELSE IF name \notin ProfileNames(Data.profiles)
            THEN /\ _profiles_data' = Some(Data)
                 /\ ret' = Raised("ClickException")
                 /\ UNCHANGED profiles_file
            ELSE /\ _profiles_data' = Some(removed(Data, name))
                 /\ profiles_file' = JsonFile(removed(Data, name))
                 /\ ret' = Ok("removed")
    /\ UNCHANGED <<credentials_file, config_file, _config, keyring_available,
                   keyring_token, env_token, env_location>>
    /\ FirstInstance
    /\ UNCHANGED <<client_vars, worker_vars>>

\* What `profiles list` prints for the items of list_profiles(), lines 64-73:
\* a hint when there are none, else a title, one line per profile, the
\* active one marked with a star, and the legend of the star.
profiles_list_lines(items) ==
    IF items = <<>>
    THEN <<"No profiles yet">>
    ELSE <<"Profiles">>
         \o [i \in 1 .. Len(items) |->
                IF items[i][2] THEN items[i][1] \o " *" ELSE items[i][1]]
         \o <<"* = active (used by default)">>

\* `ghl config profiles list`, config_cmd.py lines 60-73.
ProfilesList ==
    /\ op' = Op("profiles list", <<>>)
    /\ ret' = Ok(profiles_list_lines(list_profiles(Data)))
    /\ _profiles_data' = Some(Data)
    /\ UNCHANGED <<profiles_file, credentials_file, config_file, _config,
                   keyring_available, keyring_token, env_token, env_location>>
    /\ FirstInstance
    /\ UNCHANGED <<client_vars, worker_vars>>

\* Mutant: the pointer is stored before the name is checked.
SetActiveProfile_unchecked(name) ==
    /\ op' = Op("set_active_profile", <<name>>)
    /\ _profiles_data' = Some(ProfilesData(name, Data.profiles))
    /\ profiles_file' = JsonFile(ProfilesData(name, Data.profiles))
    /\ ret' = IF name \notin ProfileNames(Data.profiles)
              THEN Raised("ValueError") ELSE Ok(NoneStr)
    /\ UNCHANGED <<credentials_file, config_file, _config, keyring_available,
                   keyring_token, env_token, env_location>>
    /\ FirstInstance
    /\ UNCHANGED <<client_vars, worker_vars>>

\* set_active_profile, lines 122-130.
SetActiveProfile(name) ==
    /\ op' = Op("set_active_profile", <<name>>)
    /\ IF name \notin ProfileNames(Data.profiles)
       THEN /\ _profiles_data' = Some(Data)
            /\ ret' = Raised("ValueError")
            /\ UNCHANGED profiles_file
       ELSE /\ _profiles_data' = Some(ProfilesData(name, Data.profiles))
            /\ profiles_file' = JsonFile(ProfilesData(name, Data.profiles))
            /\ ret' = Ok(NoneStr)
    /\ UNCHANGED <<credentials_file, config_file, _config, keyring_available,
                   keyring_token, env_token, env_location>>
    /\ FirstInstance
    /\ UNCHANGED <<client_vars, worker_vars>>

\* remove_profile, lines 162-175.
RemoveProfile(name) ==
    /\ op' = Op("remove_profile", <<name>>)
    /\ IF name \notin ProfileNames(Data.profiles)
       THEN /\ _profiles_data' = Some(Data)
            /\ ret' = Raised("ValueError")
            /\ UNCHANGED profiles_file
       ELSE /\ _profiles_data' = Some(removed(Data, name))
            /\ profiles_file' = JsonFile(removed(Data, name))
            /\ ret' = Ok(Data.active)
    /\ UNCHANGED <<credentials_file, config_file, _config, keyring_available,
                   keyring_token, env_token, env_location>>
    /\ FirstInstance
    /\ UNCHANGED <<client_vars, worker_vars>>

\* clear_profiles, lines 177-181.
ClearProfiles ==
    /\ op' = Op("clear_profiles", <<>>)
    /\ _profiles_data' = Some(EmptyData)
    /\ profiles_file' = AbsentFile
    /\ ret' = Ok(NoneStr)
    /\ UNCHANGED <<credentials_file, config_file, _config, keyring_available,
                   keyring_token, env_token, env_location>>
    /\ FirstInstance
    /\ UNCHANGED <<client_vars, worker_vars>>

\* Mutant: the credentials file is written whether or not an active profile
\* took the token.
SetToken_also_file(token, use_keyring) ==
    /\ op' = Op("set_token", <<token, IF use_keyring THEN "True" ELSE "False">>)
    /\ ret' = Ok(NoneStr)
    /\ credentials_file' = Credentials(token)
    /\ IF ~IsNone(active_profile(Data))
       THEN LET data == added(Data, get_active_profile_name(Data), token,
                              Get(active_profile(Data)).location_id)
            IN  /\ _profiles_data' = Some(data)
                /\ profiles_file' = JsonFile(data)
       ELSE /\ _profiles_data' = Some(Data)
            /\ UNCHANGED profiles_file
    /\ UNCHANGED <<keyring_token, config_file, _config, keyring_available, env_token,
                   env_location>>
    /\ FirstInstance
    /\ UNCHANGED <<client_vars, worker_vars>>

\* set_token, lines 217-238.
SetToken(token, use_keyring) ==
    /\ op' = Op("set_token", <<token, IF use_keyring THEN "True" ELSE "False">>)
    /\ ret' = Ok(NoneStr)
    /\ IF ~IsNone(active_profile(Data))
       THEN LET data == added(Data, get_active_profile_name(Data), token,
                              Get(active_profile(Data)).location_id)
            IN  /\ _profiles_data' = Some(data)
                /\ profiles_file' = JsonFile(data)
                /\ UNCHANGED <<credentials_file, keyring_token>>
       ELSE /\ _profiles_data' = Some(Data)
            /\ UNCHANGED profiles_file
            /\ IF use_keyring /\ keyring_available
               THEN keyring_token' = token /\ UNCHANGED credentials_file
               ELSE credentials_file' = Credentials(token) /\ UNCHANGED keyring_token
    /\ UNCHANGED <<config_file, _config, keyring_available, env_token, env_location>>
    /\ FirstInstance
    /\ UNCHANGED <<client_vars, worker_vars>>

\* Mutant: the credentials file is unlinked without asking whether it exists.
ClearToken_unlink_unchecked ==
    /\ op' = Op("clear_token", <<>>)
    /\ ret' = IF credentials_file = NoCredentials
              THEN Raised("FileNotFoundError") ELSE Ok(NoneStr)
    /\ keyring_token' = IF keyring_available THEN NoneStr ELSE keyring_token
    /\ credentials_file' = NoCredentials
    /\ UNCHANGED <<profiles_file, _profiles_data, config_file, _config,
                   keyring_available, env_token, env_location>>
    /\ FirstInstance
    /\ UNCHANGED <<client_vars, worker_vars>>

\* clear_token, lines 240-252.
ClearToken ==
    /\ op' = Op("clear_token", <<>>)
    /\ ret' = Ok(NoneStr)
    /\ keyring_token' = IF keyring_available THEN NoneStr ELSE keyring_token
    /\ credentials_file' = NoCredentials
    /\ UNCHANGED <<profiles_file, _profiles_data, config_file, _config,
                   keyring_available, env_token, env_location>>
    /\ FirstInstance
    /\ UNCHANGED <<client_vars, worker_vars>>

\* save_config(config): the standalone config file and its cache are written,
\* nothing else; the profiles are neither read nor written.
SaveConfig(config) ==
    /\ op' = Op("save_config", <<config.location_id>>)
    /\ ret' = Ok(NoneStr)
    /\ config_file' = ConfigFile(config)
    /\ _config' = Some(config)
    /\ UNCHANGED <<profiles_file, _profiles_data, credentials_file,
                   keyring_available, keyring_token, env_token, env_location>>
    /\ FirstInstance
    /\ UNCHANGED <<client_vars, worker_vars>>

\* The config property: the standalone config is loaded on first access and
\* kept; no file is written and the profiles are not loaded.
ConfigAccess ==
    /\ op' = Op("config", <<>>)
    /\ ret' = Ok(Config.location_id)
    /\ _config' = Some(Config)
    /\ UNCHANGED <<profiles_file, _profiles_data, credentials_file, config_file,
                   keyring_available, keyring_token, env_token, env_location>>
    /\ FirstInstance
    /\ UNCHANGED <<client_vars, worker_vars>>

\* The command "config clear --all": clear_token(), clear_profiles(), then the
\* config file is removed; the cached config of the manager stays as it was.
ConfigClearAll ==
    /\ op' = Op("config clear --all", <<>>)
    /\ ret' = Ok(NoneStr)
    /\ keyring_token' = IF keyring_available THEN NoneStr ELSE keyring_token
    /\ credentials_file' = NoCredentials
    /\ _profiles_data' = Some(EmptyData)
    /\ profiles_file' = AbsentFile
    /\ config_file' = NoConfigFile
    /\ UNCHANGED <<_config, keyring_available, env_token, env_location>>
    /\ FirstInstance
    /\ UNCHANGED <<client_vars, worker_vars>>

\* Mutant: the standalone config alone is updated, the active profile is not.
UpdateConfig_config_only(loc) ==
    /\ op' = Op("update_config", <<loc>>)
    /\ IF loc # NoneStr
       THEN /\ _profiles_data' = Some(Data)
            /\ UNCHANGED profiles_file
       ELSE UNCHANGED <<_profiles_data, profiles_file>>
    /\ LET new_config == IF loc # NoneStr THEN GHLConfig(loc) ELSE Config
       IN  /\ config_file' = ConfigFile(new_config)
           /\ _config' = Some(new_config)
           /\ ret' = Ok(new_config.location_id)
    /\ UNCHANGED <<credentials_file, keyring_available, keyring_token, env_token,
                   env_location>>
    /\ FirstInstance
    /\ UNCHANGED <<client_vars, worker_vars>>

\* update_config(location_id=loc), lines 74-88; loc may be None.
UpdateConfig(loc) ==
    /\ op' = Op("update_config", <<loc>>)
    /\ IF loc # NoneStr
       THEN IF ~IsNone(active_profile(Data))
            THEN LET data == added(Data, get_active_profile_name(Data),
                                   Get(active_profile(Data)).api_token, loc)
                 IN  /\ _profiles_data' = Some(data)
                     /\ profiles_file' = JsonFile(data)
            ELSE /\ _profiles_data' = Some(Data)
                 /\ UNCHANGED profiles_file
       ELSE UNCHANGED <<_profiles_data, profiles_file>>
    /\ LET new_config == IF loc # NoneStr THEN GHLConfig(loc) ELSE Config
       IN  /\ config_file' = ConfigFile(new_config)
           /\ _config' = Some(new_config)
           /\ ret' = Ok(new_config.location_id)
    /\ UNCHANGED <<credentials_file, keyring_available, keyring_token, env_token,
                   env_location>>
    /\ FirstInstance
    /\ UNCHANGED <<client_vars, worker_vars>>

\* get_token, lines 183-215: the profiles are loaded unless the environment
\* answers.
GetToken ==
    /\ op' = Op("get_token", <<>>)
    /\ ret' = Ok(get_token(env_token, Data, credentials_file, keyring_available,
                           keyring_token))
    /\ _profiles_data' = IF ~Falsy(env_token) THEN _profiles_data ELSE Some(Data)
    /\ UNCHANGED <<profiles_file, credentials_file, config_file, _config,
                   keyring_available, keyring_token, env_token, env_location>>
    /\ FirstInstance
    /\ UNCHANGED <<client_vars, worker_vars>>

\* get_location_id, lines 254-266: the config is loaded only when neither the
\* environment nor the active profile answers.
GetLocationId ==
    /\ op' = Op("get_location_id", <<>>)
    /\ ret' = Ok(get_location_id(env_location, Data, Config))
    /\ _profiles_data' = IF ~Falsy(env_location) THEN _profiles_data ELSE Some(Data)
    /\ _config' = IF ~Falsy(env_location) \/ ~IsNone(active_profile(Data))
                  THEN _config ELSE Some(Config)
    /\ UNCHANGED <<profiles_file, credentials_file, config_file, keyring_available,
                   keyring_token, env_token, env_location>>
    /\ FirstInstance
    /\ UNCHANGED <<client_vars, worker_vars>>

\* Mutant: the read writes the data it loaded back to the profiles file.
GetActiveProfileName_saving ==
    /\ op' = Op("get_active_profile_name", <<>>)
    /\ ret' = Ok(get_active_profile_name(Data))
    /\ _profiles_data' = Some(Data)
    /\ profiles_file' = JsonFile(Data)
    /\ UNCHANGED <<credentials_file, config_file, _config,
                   keyring_available, keyring_token, env_token, env_location>>
    /\ FirstInstance
    /\ UNCHANGED <<client_vars, worker_vars>>

\* get_active_profile_name, lines 114-120.
GetActiveProfileName ==
    /\ op' = Op("get_active_profile_name", <<>>)
    /\ ret' = Ok(get_active_profile_name(Data))
    /\ _profiles_data' = Some(Data)
    /\ UNCHANGED <<profiles_file, credentials_file, config_file, _config,
                   keyring_available, keyring_token, env_token, env_location>>
    /\ FirstInstance
    /\ UNCHANGED <<client_vars, worker_vars>>

\* list_profiles, lines 132-137.
ListProfiles ==
    /\ op' = Op("list_profiles", <<>>)
    /\ ret' = Ok(list_profiles(Data))
    /\ _profiles_data' = Some(Data)
    /\ UNCHANGED <<profiles_file, credentials_file, config_file, _config,
                   keyring_available, keyring_token, env_token, env_location>>
    /\ FirstInstance
    /\ UNCHANGED <<client_vars, worker_vars>>

\* ------------------------------------------------------------------------
\* The TUI workers of tui/screens/contacts.py: each runs in its own thread
\* and makes its own client, `with GHLClient(get_token(), location_id) as
\* client:`, which it alone uses and which is closed when the block is left
\* ------------------------------------------------------------------------
ContactId == "c1"
\* What get_location_id() of ghl.auth gave the worker function.
WorkerLocations == {NoneStr, "loc2"}
\* The filter of the contacts screen: a search text, a tag, an assignee.
ContactFilters ==
    { [query |-> NoneStr, tag |-> NoneStr, assigned_to |-> NoneStr],
      [query |-> "x", tag |-> NoneStr, assigned_to |-> NoneStr],
      [query |-> NoneStr, tag |-> "vip", assigned_to |-> NoneStr] }

\* An Optional[str] formatted into an f-string or a request body.
str(x) == IF x = NoneStr THEN "None" ELSE x

\* client.get(path, params, include_location_id=...), client.py lines 234-249.
get(path, query_params, include_location_id) ==
    [method |-> "GET", path |-> path, params |-> query_params, json |-> NoneStr,
     files |-> NoneStr, max_retries |-> WorkerMaxRetries,
     include_location_id |-> include_location_id, location_param |-> "locationId"]

\* client.post(path, json, include_location_id=...), client.py lines 251-268.
post(path, body, include_location_id) ==
    [method |-> "POST", path |-> path, params |-> None, json |-> body,
     files |-> NoneStr, max_retries |-> WorkerMaxRetries,
     include_location_id |-> include_location_id, location_param |-> "locationId"]

\* services/contacts.py, lines 12-18.
list_contacts(query) ==
    get("/contacts/",
        Some(IF Falsy(query) THEN << <<"limit", "50">> >>
             ELSE << <<"limit", "50">>, <<"query", query>> >>),
        TRUE)

\* services/contacts.py, lines 109-147: the body holds the worker's location,
\* the page, the stripped query if any and the filters if any (an assignee,
\* a tag that is not blank); the location is not added to the query string.
contacts_search(loc, query, tag, assigned_to) ==
    LET assigned == IF Falsy(assigned_to) THEN ""
                    ELSE "assignedTo eq " \o assigned_to \o "; "
        tagged == IF Falsy(tag) \/ strip(tag) = "" THEN ""
                  ELSE "tags contains " \o strip(tag) \o "; "
        filters == IF assigned \o tagged = "" THEN ""
                   ELSE ", filters: [AND: " \o assigned \o tagged \o "]"
    IN  post("/contacts/search",
             "{locationId: " \o str(loc) \o ", page: 1, pageLimit: 50"
                \o (IF Falsy(query) THEN "" ELSE ", query: " \o strip(query))
                \o filters \o "}",
             FALSE)

\* services/contacts.py, lines 21-24, 166-171 and 184-189.
get_contact(contact_id) == get("/contacts/" \o contact_id, None, TRUE)
list_notes(contact_id) == get("/contacts/" \o contact_id \o "/notes", None, FALSE)
list_tasks(contact_id) == get("/contacts/" \o contact_id \o "/tasks", None, FALSE)

\* services/custom_fields.py, lines 121-124 and 137-145.
list_custom_fields(loc) ==
    get("/locations/" \o str(loc) \o "/customFields", None, FALSE)
list_custom_values(loc, contact_id) ==
    get("/locations/" \o str(loc) \o "/customValues",
        IF Falsy(contact_id) THEN None ELSE Some(<< <<"contactId", contact_id>> >>),
        FALSE)

\* load_contacts, lines 311-323: POST /contacts/search when a tag or an
\* assignee is set, GET /contacts/ otherwise.
load_contacts_call(loc, f) ==
    IF ~Falsy(f.tag) \/ ~Falsy(f.assigned_to)
    THEN contacts_search(loc, f.query, f.tag, f.assigned_to)
    ELSE list_contacts(f.query)

\* load_contact_detail, lines 331-340: its five calls in order.
load_contact_detail_calls(loc) ==
    << get_contact(ContactId), list_notes(ContactId), list_tasks(ContactId),
       list_custom_fields(loc), list_custom_values(loc, ContactId) >>

\* Every request() the two workers make.
WorkerCalls ==
    UNION { {load_contacts_call(loc, f) : f \in ContactFilters}
            \cup {load_contact_detail_calls(loc)[i] : i \in 1 .. 5} :
            loc \in WorkerLocations }

\* The last request() of the worker raised.
Failed(me) == me.step > 0 /\ me.outcome.kind # "return"

\* The request() the worker function makes next (me.step are made): the one
\* call of load_contacts; the next call of load_contact_detail while none
\* has raised.
NextCalls(w, me) ==
    IF w = "load_contacts"
    THEN IF me.step = 0
         THEN {load_contacts_call(me.location, f) : f \in ContactFilters}
         ELSE {}
    ELSE IF me.step < 5 /\ ~Failed(me)
         THEN {load_contact_detail_calls(me.location)[me.step + 1]}
         ELSE {}

\* The exception of a request() leaves the worker function, but for those of
\* the custom-field calls of load_contact_detail, which lines 336-342 swallow
\* (`except Exception: pass`).
Raises(w, me) == Failed(me) /\ ~(w = "load_contact_detail" /\ me.step >= 4)

\* Mutant: the record is an attribute of the class, one for all instances.
SetRateLimitInfo_class(ws, w, info) ==
    [v \in DOMAIN ws |-> [ws[v] EXCEPT !._rate_limit_info = info]]

\* self._rate_limit_info = info, client.py line 125 (and line 91): the
\* attribute of the instance of worker w.
SetRateLimitInfo(ws, w, info) == [ws EXCEPT ![w]._rate_limit_info = info]

\* A step of worker w leaves the first client alone.
WorkerStep(w) ==
    /\ worker' = w
    /\ UNCHANGED client_vars

\* The worker function starts (again): location_id = get_location_id() gave
\* loc, and GHLClient(get_token(), loc) is constructed, client.py lines
\* 87-92: a falsy loc is replaced by config_manager.get_location_id(),
\* config_manager.config is read, and the new object has no record and no
\* connection.
NewClient(w, loc) ==
    /\ workers[w].scope \in {"none", "exited"}
    /\ workers' =
          SetRateLimitInfo(
              [workers EXCEPT ![w] =
                  [NoWorker EXCEPT
                      !.scope = "made",
                      !.location = loc,
                      !.location_id =
                          IF Falsy(loc)
                          THEN get_location_id(env_location, Data, Config)
                          ELSE loc]],
              w, None)
    /\ IF Falsy(loc)
       THEN /\ op' = Op("get_location_id", <<>>)
            /\ ret' = Ok(get_location_id(env_location, Data, Config))
            /\ _profiles_data' =
                  IF ~Falsy(env_location) THEN _profiles_data ELSE Some(Data)
       ELSE UNCHANGED <<op, ret, _profiles_data>>
    /\ _config' = Some(Config)
    /\ UNCHANGED <<profiles_file, credentials_file, config_file, keyring_available,
                   keyring_token, env_token, env_location, _profiles_data_2,
                   instance, running>>
    /\ WorkerStep(w)

\* __enter__, client.py lines 327-328: the `with` block is entered.
WorkerEnter(w) ==
    /\ workers[w].scope = "made"
    /\ workers' = [workers EXCEPT ![w].scope = "inside"]
    /\ WorkerStep(w)
    /\ UNCHANGED store_vars

\* The worker calls request() through a service function: entry of
\* request(), client.py lines 192-203.
WorkerRequest(w, c) ==
    LET me == workers[w]
    IN  /\ me.scope = "inside"
        /\ me.pc = "idle"
        /\ c \in NextCalls(w, me)
        /\ workers' =
              [workers EXCEPT ![w] =
                  [me EXCEPT
                      !.step = me.step + 1,
                      !.call = c,
                      !.params = add_location(clean_params(c.params),
                                              c.include_location_id,
                                              c.location_param, me.location_id),
                      !.attempt = 0,
                      !.response = None,
                      !.sleep_kind = "none",
                      !.pc = IF 0 < c.max_retries THEN "loop" ELSE "idle",
                      !.outcome = IF 0 < c.max_retries THEN NoOutcome
                                  ELSE RuntimeError]]
        /\ WorkerStep(w)
        /\ UNCHANGED store_vars

\* One iteration of the loop, client.py lines 204-223: the connection of this
\* client is made if it has none and the HTTP call is issued.
WorkerSend(w) ==
    LET me == workers[w]
    IN  /\ me.pc = "loop"
        /\ me.attempt < me.call.max_retries
        /\ workers' = [workers EXCEPT ![w] =
                          [me EXCEPT !._client = client(me._client, 0)[1],
                                     !.pc = "waiting"]]
        /\ WorkerStep(w)
        /\ UNCHANGED store_vars

\* The server answers the call of worker w: _handle_rate_limit, client.py
\* lines 119-138, on the worker's client, then lines 144-162 and 227-230
\* unless the thread sleeps first.
WorkerReceive(w, resp, now) ==
    LET me == workers[w]
        info == updated_info(me._rate_limit_info, resp)
        sl == rate_limit_sleep(info, resp, now)
        after == after_response(resp, me.attempt, me.call.max_retries)
    IN  /\ me.pc = "waiting"
        /\ workers' =
              SetRateLimitInfo(
                  [workers EXCEPT ![w] =
                      [me EXCEPT
                          !.response = Some(resp),
                          !.sleep_kind = sl[1],
                          !.pc = IF sl[1] # "none" THEN "sleeping" ELSE after[1],
                          !.attempt = IF sl[1] # "none" THEN me.attempt ELSE after[2],
                          !.outcome = IF sl[1] # "none" THEN me.outcome ELSE after[3]]],
                  w, info)
        /\ WorkerStep(w)
        /\ UNCHANGED store_vars

\* time.sleep returns in the thread of worker w: its request() retries,
\* returns or raises.
WorkerWake(w) ==
    LET me == workers[w]
        after == after_response(Get(me.response), me.attempt, me.call.max_retries)
    IN  /\ me.pc = "sleeping"
        /\ workers' = [workers EXCEPT ![w] =
                          [me EXCEPT !.pc = after[1], !.attempt = after[2],
                                     !.outcome = after[3]]]
        /\ WorkerStep(w)
        /\ UNCHANGED store_vars

\* The call of worker w fails in the transport: the exception leaves its
\* request().
WorkerTransportFailure(w) ==
    LET me == workers[w]
    IN  /\ me.pc = "waiting"
        /\ workers' = [workers EXCEPT ![w] =
                          [me EXCEPT !.pc = "idle", !.outcome = TransportError,
                                     !.sleep_kind = "none"]]
        /\ WorkerStep(w)
        /\ UNCHANGED store_vars

\* The `with` block is left, by `rli = client.rate_limit_info; return (...)`
\* (lines 324-325 and 343-344) or by the exception of a request(): __exit__,
\* client.py lines 330-331, closes the client's connection either way.  The
\* thread is over: of its locals only the result is kept, and of the client
\* its attributes.
WorkerExit(w) ==
    LET me == workers[w]
    IN  /\ me.scope = "inside"
        /\ me.pc = "idle"
        /\ NextCalls(w, me) = {}
        /\ workers' =
              [workers EXCEPT ![w] =
                  [NoWorker EXCEPT
                      !.scope = "exited",
                      !.location_id = me.location_id,
                      !._rate_limit_info = me._rate_limit_info,
                      !._client = close(me._client, 1)[1],
                      !.result = IF Raises(w, me) THEN "raised" ELSE "returned",
                      !.rli = IF Raises(w, me) THEN None ELSE me._rate_limit_info]]
        /\ WorkerStep(w)
        /\ UNCHANGED store_vars

\* ------------------------------------------------------------------------
\* Two ConfigManager instances over the same profiles file (two processes).
\* No lock is taken, so the file operations of a call of one instance are
\* interleaved with those of the other: exists() and read_text() of
\* _load_profiles_data; the open (which creates or truncates the file), the
\* write and os.chmod of _save_profiles_data; exists() and unlink() of
\* clear_profiles.  A step is one file operation with the computation on the
\* instance's own memory that precedes it.
\* ------------------------------------------------------------------------
\* The file just opened for writing: it exists and is empty, which
\* json.loads refuses.
TruncatedFile == [kind |-> "truncated", data |-> EmptyData]

\* len(json.dumps(data, indent=2)) for the text _save_profiles_data writes:
\* an entry is `    "name": {`, its keys on a line each, and `    }`.
entry_len(e) ==
    LET tok == IF e.api_token = NoneStr THEN 0 ELSE 21 + Len(e.api_token)
        loc == IF e.location_id = NoneStr THEN 0 ELSE 23 + Len(e.location_id)
        sep == IF tok > 0 /\ loc > 0 THEN 2 ELSE 0
    IN  Len(e.name) + 8 + (IF tok + loc = 0 THEN 2 ELSE 2 + tok + sep + loc + 6)

RECURSIVE entries_len(_)
entries_len(profiles) ==
    IF profiles = <<>> THEN 0
    ELSE entry_len(Head(profiles)) + (IF Len(profiles) > 1 THEN 2 ELSE 0)
            + entries_len(Tail(profiles))

json_len(data) ==
    32 + (IF data.active = NoneStr THEN 4 ELSE Len(data.active) + 2)
       + (IF data.profiles = <<>> THEN 2 ELSE 6 + entries_len(data.profiles))

\* The file after the text of data is written at offset 0 through a
\* descriptor opened before the file's present content was written: a
\* shorter text leaves the tail of the present content behind it, and the
\* whole is no JSON document.
written(data, file) ==
    IF file.kind = "json" /\ json_len(data) < json_len(file.data)
    THEN MalformedFile
    ELSE JsonFile(data)

Cache(i) == IF i = "first" THEN _profiles_data ELSE _profiles_data_2

\* self._profiles_data = value on instance i.
SetCache(i, value) ==
    IF i = "first"
    THEN _profiles_data' = value /\ UNCHANGED _profiles_data_2
    ELSE _profiles_data_2' = value /\ UNCHANGED _profiles_data

\* A step of a call of instance i touches nothing but the profiles file and
\* the instance's cache.
SharedStep ==
    /\ UNCHANGED <<credentials_file, config_file, _config, keyring_available,
                   keyring_token, env_token, env_location>>
    /\ UNCHANGED <<client_vars, worker_vars>>

\* The call of instance i goes on to its next file operation.
GoOn(i, next) ==
    /\ running' = [running EXCEPT ![i].pc = next]
    /\ UNCHANGED <<op, ret, instance>>

\* The call of instance i has changed its dict and goes on to
\* _save_profiles_data, to return value after it.
Save(i, value) ==
    /\ running' = [running EXCEPT ![i].pc = "open", ![i].value = value]
    /\ UNCHANGED <<op, ret, instance>>

\* The call of instance i returns a value or raises an exception.
Return(i, result) ==
    /\ running' = [running EXCEPT ![i] = NotRunning]
    /\ op' = running[i].op
    /\ ret' = result
    /\ instance' = i

\* The calls made on the two instances.
SharedOps ==
    { Op("add_or_update_profile", <<"a", "t1", "l1">>),
      Op("add_or_update_profile", <<"b", "t2", "l2">>),
      Op("set_active_profile", <<"a">>),
      Op("remove_profile", <<"a">>),
      Op("clear_profiles", <<>>),
      Op("get_active_profile_name", <<>>) }

\* Instance i is called: nothing has happened yet.
StoreCall(i, o) ==
    /\ running[i].pc = "idle"
    /\ running' = [running EXCEPT ![i] =
                      [pc |-> IF o.name = "clear_profiles" THEN "clear" ELSE "load",
                       op |-> o, fd |-> "none", value |-> NoneStr]]
    /\ UNCHANGED <<profiles_file, _profiles_data, _profiles_data_2, op, ret,
                   instance>>
    /\ SharedStep

\* The call of instance i has its data (lines 114-120, 122-128, 151-159,
\* 162-173): get_active_profile_name returns; set_active_profile and
\* remove_profile raise for an unknown name; otherwise the dict is changed
\* in memory, the cache is set to it, and _save_profiles_data is next.
Loaded(i, data) ==
    LET o == running[i].op
    IN  CASE o.name = "get_active_profile_name" ->
               /\ SetCache(i, Some(data))
               /\ Return(i, Ok(get_active_profile_name(data)))
          [] o.name = "add_or_update_profile" ->
               /\ SetCache(i, Some(added(data, o.args[1], o.args[2], o.args[3])))
               /\ Save(i, NoneStr)
          [] o.name = "set_active_profile" ->
               IF o.args[1] \notin ProfileNames(data.profiles)
               THEN /\ SetCache(i, Some(data))
                    /\ Return(i, Raised("ValueError"))
               ELSE /\ SetCache(i, Some(ProfilesData(o.args[1], data.profiles)))
                    /\ Save(i, NoneStr)
          [] o.name = "remove_profile" ->
               IF o.args[1] \notin ProfileNames(data.profiles)
               THEN /\ SetCache(i, Some(data))
                    /\ Return(i, Raised("ValueError"))
               ELSE /\ SetCache(i, Some(removed(data, o.args[1])))
                    /\ Save(i, data.active)

\* _load_profiles_data, lines 92-96: the cached data if there is one, else
\* PROFILES_FILE.exists(); without a file the empty store is cached.
LoadExists(i) ==
    /\ running[i].pc = "load"
    /\ IF ~IsNone(Cache(i))
       THEN Loaded(i, Get(Cache(i)))
       ELSE IF profiles_file.kind = "absent"
            THEN Loaded(i, EmptyData)
            ELSE /\ GoOn(i, "read")
                 /\ UNCHANGED <<_profiles_data, _profiles_data_2>>
    /\ UNCHANGED profiles_file
    /\ SharedStep

\* _load_profiles_data, lines 97-106: read_text() and json.loads of what the
\* file holds now; a file removed since exists(), an empty one and an
\* unparsable one all end in the except branch, with the empty store cached.
LoadRead(i) ==
    /\ running[i].pc = "read"
    /\ Loaded(i, IF profiles_file.kind = "json" THEN profiles_file.data
                 ELSE EmptyData)
    /\ UNCHANGED profiles_file
    /\ SharedStep

\* _save_profiles_data, lines 110-111: the directory is there, and
\* write_text opens the file for writing, which creates it or empties it.
SaveOpen(i) ==
    /\ running[i].pc = "open"
    /\ profiles_file' = TruncatedFile
    /\ running' = [running EXCEPT ![i].pc = "write", ![i].fd = "linked"]
    /\ UNCHANGED <<_profiles_data, _profiles_data_2, op, ret, instance>>
    /\ SharedStep

\* write_text writes the text of the instance's dict and closes the file.
\* The text goes to the file that was opened: if that file has been unlinked
\* since, the path is left as it is.
SaveWrite(i) ==
    /\ running[i].pc = "write"
    /\ IF running[i].fd = "linked"
       THEN profiles_file' = written(Get(Cache(i)), profiles_file)
       ELSE UNCHANGED profiles_file
    /\ running' = [running EXCEPT ![i].pc = "chmod", ![i].fd = "none"]
    /\ UNCHANGED <<_profiles_data, _profiles_data_2, op, ret, instance>>
    /\ SharedStep

\* _save_profiles_data, line 112: os.chmod(PROFILES_FILE, 0o600) raises
\* FileNotFoundError if the file is not there any more; otherwise the call
\* returns (remove_profile the active name it found, lines 171 and 175).
SaveChmod(i) ==
    /\ running[i].pc = "chmod"
    /\ IF profiles_file.kind = "absent"
       THEN Return(i, Raised("FileNotFoundError"))
       ELSE Return(i, Ok(running[i].value))
    /\ UNCHANGED <<profiles_file, _profiles_data, _profiles_data_2>>
    /\ SharedStep

\* clear_profiles, lines 179-180: the cache is reset, then
\* PROFILES_FILE.exists(); without a file the call returns.
ClearExists(i) ==
    /\ running[i].pc = "clear"
    /\ SetCache(i, Some(EmptyData))
    /\ IF profiles_file.kind = "absent"
       THEN Return(i, Ok(NoneStr))
       ELSE GoOn(i, "unlink")
    /\ UNCHANGED profiles_file
    /\ SharedStep

\* clear_profiles, line 181: unlink() raises FileNotFoundError if the file
\* has been removed since exists(); otherwise the path is gone, and a
\* descriptor open on the file keeps a file without a name.
ClearUnlink(i) ==
    /\ running[i].pc = "unlink"
    /\ IF profiles_file.kind = "absent"
       THEN /\ Return(i, Raised("FileNotFoundError"))
            /\ UNCHANGED profiles_file
       ELSE /\ profiles_file' = AbsentFile
            /\ running' = [j \in Instances |->
                             IF j = i THEN NotRunning
                             ELSE [running[j] EXCEPT
                                      !.fd = IF @ = "linked" THEN "unlinked" ELSE @]]
            /\ op' = running[i].op
            /\ ret' = Ok(NoneStr)
            /\ instance' = i
    /\ UNCHANGED <<_profiles_data, _profiles_data_2>>
    /\ SharedStep

\* ------------------------------------------------------------------------
\* Specifications
\* ------------------------------------------------------------------------
\* The store specifications run a ConfigManager on its own, just constructed
\* (config.py lines 40-42: nothing loaded yet); no GHLClient has been made, and
\* the client's variables keep these values, which no store action reads.
ClientIdle ==
    /\ ClientInit
    /\ location_id = NoneStr
    /\ call.method = "GET"

\* The profiles files a store may be constructed over: none, an unparsable
\* one, ones written by the store, and edited ones (an active name that is
\* no profile, an entry without api_token, no "active" key).
InitialProfilesFiles ==
    { AbsentFile,
      MalformedFile,
      JsonFile(EmptyData),
      JsonFile(ProfilesData("a", <<Entry("a", "t1", "l1")>>)),
      JsonFile(ProfilesData("c", <<Entry("c", "t2", "l2"), Entry("b", "t1", "l1")>>)),
      JsonFile(ProfilesData("c", <<Entry("b", "t1", "l1"), Entry("a", "t1", "l1")>>)),
      JsonFile(ProfilesData("b", <<>>)),
      JsonFile(ProfilesData("a", <<Entry("a", NoneStr, "l1")>>)),
      JsonFile(ProfilesData(NoneStr, <<Entry("b", "t1", "l1")>>)) }

\* The profiles files two instances are started over.
SharedProfilesFiles ==
    { AbsentFile,
      MalformedFile,
      JsonFile(ProfilesData("a", <<Entry("a", "t1", "l1")>>)) }

\* The store of a fresh home directory after GHLClient.__init__ has read it
\* (client.py lines 88-89): config_manager.config has loaded the default
\* config, and for a client made without a location get_location_id() has
\* loaded the (empty) profiles and found nothing.
StoreAfterClientInit ==
    /\ profiles_file = AbsentFile
    /\ _profiles_data = IF Falsy(location_id) THEN Some(EmptyData) ELSE None
    /\ credentials_file = NoCredentials
    /\ config_file = NoConfigFile
    /\ _config = Some(GHLConfig(NoneStr))
    /\ keyring_available = FALSE
    /\ keyring_token = NoneStr
    /\ env_token = NoneStr
    /\ env_location = NoneStr
    /\ op = IF Falsy(location_id) THEN Op("get_location_id", <<>>)
            ELSE Op("__init__", <<>>)
    /\ ret = Ok(NoneStr)
    /\ _profiles_data_2 = None
    /\ instance = "first"
    /\ running = NoCalls

\* The client just constructed; request() does not touch the store.
Init == ClientInit /\ StoreAfterClientInit

Next ==
    \/ \E c \in CallSamples : RequestCall(c)
    \/ Send
    \/ \E resp \in Responses :
          \E now \in (IF resp.status_code = 429 THEN NowSamples ELSE {1000}) :
             Receive(resp, now)
    \/ Wake
    \/ TransportFailure
    \/ Close
    \/ ClientAccess

Spec == Init /\ [][Next]_vars

\* The client used inside and outside `with` blocks: the plain call with
\* every max_retries, every response, transport failures, close().
ScopeCalls ==
    {c \in CallSamples : c.method = "GET" /\ c.params = None /\ c.include_location_id}

ScopeNext ==
    \/ \E c \in ScopeCalls : RequestCall(c)
    \/ Send
    \/ \E resp \in Responses : Receive(resp, 1000)
    \/ Wake
    \/ TransportFailure
    \/ Close
    \/ ClientAccess
    \/ Enter
    \/ Exit

ScopeSpec == Init /\ [][ScopeNext]_vars

\* Two clients of two workers, their steps interleaved in every order: the
\* first runs request() with one retry allowed, the second handles
\* responses of its own and is constructed anew at any time.
\* The call of a worker: load_contacts calls list_contacts(client, limit=50,
\* query=query), which calls client.get("/contacts/", params={"limit": 50}),
\* with the query added when there is one; get() leaves max_retries at the
\* default of request(), 3.
WorkerHeaders ==
    { Hdr(NoneInt, NoneInt, NoneInt, NoneInt, NoneInt, NoneInt),
      Hdr(3, 100, NoneInt, NoneInt, NoneInt, NoneInt) }
WorkerResponses ==
    {r \in Responses : /\ r.status_code \in {200, 429}
                       /\ r.body = "json"
                       /\ r.headers \in WorkerHeaders}

\* The application has started and no worker has run: the module's
\* config_manager has loaded nothing, and the home directory holds one
\* profile.
WorkersInit ==
    /\ ClientIdle
    /\ profiles_file = JsonFile(ProfilesData("a", <<Entry("a", "t1", "l1")>>))
    /\ _profiles_data = None
    /\ credentials_file = NoCredentials
    /\ config_file = NoConfigFile
    /\ _config = None
    /\ keyring_available = FALSE
    /\ keyring_token = NoneStr
    /\ env_token = NoneStr
    /\ env_location = NoneStr
    /\ op = Op("__init__", <<>>)
    /\ ret = Ok(NoneStr)
    /\ _profiles_data_2 = None
    /\ instance = "first"
    /\ running = NoCalls

WorkersNext ==
    \E w \in WorkerNames :
       \/ \E loc \in WorkerLocations : NewClient(w, loc)
       \/ WorkerEnter(w)
       \/ \E c \in WorkerCalls : WorkerRequest(w, c)
       \/ WorkerSend(w)
       \/ \E resp \in WorkerResponses : WorkerReceive(w, resp, 1000)
       \/ WorkerWake(w)
       \/ WorkerTransportFailure(w)
       \/ WorkerExit(w)

WorkersSpec == WorkersInit /\ [][WorkersNext]_vars

\* request() with every shape of params, both names of the location
\* parameter, with and without include_location_id, one retry allowed, on a
\* client with and without a location.
LocationParamSamples ==
    ParamSamples \cup
    { Some(<< <<"locationId", NoneStr>> >>),
      Some(<< <<"limit", NoneStr>>, <<"locationId", "callerLoc">>, <<"query", "x">> >>),
      Some(<< <<"location_id", "callerLoc">>, <<"limit", NoneStr>> >>) }

LocationCalls ==
    [method : {"GET"}, path : {"/contacts/"}, params : LocationParamSamples,
     json : {NoneStr}, files : {NoneStr}, max_retries : {2},
     include_location_id : BOOLEAN, location_param : {"locationId", "location_id"}]

LocationResponses ==
    {r \in Responses : /\ r.status_code \in {200, 429, 500}
                       /\ r.body = "json"
                       /\ r.headers \in {Hdr(NoneInt, NoneInt, NoneInt, NoneInt, NoneInt, NoneInt),
                                          Hdr(3, 100, NoneInt, NoneInt, NoneInt, NoneInt)}}

LocationNext ==
    \/ \E c \in LocationCalls : RequestCall(c)
    \/ Send
    \/ \E resp \in LocationResponses : Receive(resp, 1000)
    \/ Wake
    \/ TransportFailure

LocationSpec == Init /\ [][LocationNext]_vars

\* request() answered 200 or 429 at clock reading BackoffNow, the headers
\* naming resets before and after BackoffNow + interval, with and without
\* the headers that make a response count as carrying rate-limit headers.
BackoffNow == 1000

BackoffHeaders ==
    { Hdr(NoneInt, NoneInt, NoneInt, NoneInt, NoneInt, NoneInt),
      Hdr(NoneInt, NoneInt, NoneInt, 20000, NoneInt, 1030),
      Hdr(NoneInt, NoneInt, NoneInt, NoneInt, NoneInt, 1004),
      Hdr(3, 100, NoneInt, NoneInt, NoneInt, NoneInt),
      Hdr(0, 50, NoneInt, 20000, NoneInt, 1030),
      Hdr(60, NoneInt, 200, NoneInt, 5000, 1004),
      Hdr(5, 100, NoneInt, NoneInt, NoneInt, 0) }

BackoffResponses ==
    [status_code : {200, 429}, headers : BackoffHeaders, body : {"json"}]

BackoffNext ==
    \/ \E c \in ScopeCalls : RequestCall(c)
    \/ Send
    \/ \E resp \in BackoffResponses : Receive(resp, BackoffNow)
    \/ Wake

BackoffSpec == Init /\ [][BackoffNext]_vars

\* The store under every sequence of its operations, from every initial
\* profiles file, without environment overrides.
StoreInit ==
    /\ ClientIdle
    /\ profiles_file \in InitialProfilesFiles
    /\ _profiles_data = None
    /\ credentials_file = NoCredentials
    /\ config_file = NoConfigFile
    /\ _config = None
    /\ keyring_available \in BOOLEAN
    /\ keyring_token = NoneStr
    /\ env_token = NoneStr
    /\ env_location = NoneStr
    /\ op = Op("__init__", <<>>)
    /\ ret = Ok(NoneStr)
    /\ _profiles_data_2 = None
    /\ instance = "first"
    /\ running = NoCalls

StoreNext ==
    \/ \E name \in AddNames, api_token \in Tokens, loc \in Locations :
          AddOrUpdateProfile(name, api_token, loc)
    \/ \E name \in Names : SetActiveProfile(name)
    \/ \E name \in Names : RemoveProfile(name)
    \/ ClearProfiles
    \/ \E token \in Tokens, use_keyring \in BOOLEAN : SetToken(token, use_keyring)
    \/ ClearToken
    \/ \E loc \in UpdateLocations : UpdateConfig(loc)
    \/ GetToken
    \/ GetLocationId
    \/ GetActiveProfileName
    \/ ListProfiles
    \/ \E loc \in SaveLocations : SaveConfig(GHLConfig(loc))
    \/ ConfigAccess
    \/ ConfigClearAll

StoreSpec == StoreInit /\ [][StoreNext]_vars

\* The profile commands of the CLI over every initial profiles file:
\* profiles add with plain, padded and blank arguments, profiles use,
\* profiles remove with its confirmation given or declined, profiles list.
\* A command raises ClickException or Abort, never the store's ValueError.
CommandNames == {"a", "b", " a "}
CommandTokens == {"t1", " "}
CommandLocations == {"l1", "l2", " "}

CommandNext ==
    \/ \E name \in CommandNames, token \in CommandTokens, loc \in CommandLocations :
          ProfilesAdd(name, token, loc)
    \/ \E name \in Names : ProfilesUse(name)
    \/ \E name \in Names, confirmed \in BOOLEAN : ProfilesRemove(name, confirmed)
    \/ ProfilesList

CommandSpec == StoreInit /\ [][CommandNext]_vars

\* The store started empty (no file in ~/.ghl_tui) under every sequence of
\* its writing operations on up to three profiles, failed calls included.
EmptyStoreInit ==
    /\ StoreInit
    /\ profiles_file = AbsentFile

EmptyStoreNext ==
    \/ \E name \in Names : AddOrUpdateProfile(name, "t1", "l1")
    \/ \E name \in Names : SetActiveProfile(name)
    \/ \E name \in Names : RemoveProfile(name)
    \/ ClearProfiles
    \/ \E use_keyring \in BOOLEAN : SetToken("t2", use_keyring)
    \/ UpdateConfig("l2")
    \/ ListProfiles
    \/ ConfigClearAll

EmptyStoreSpec == EmptyStoreInit /\ [][EmptyStoreNext]_vars

\* The resolution of the token and of the location as functions of their
\* sources: every combination of environment, profiles file, credentials
\* file, keyring and config file, read by the store's read operations.
ResolveInit ==
    /\ ClientIdle
    /\ profiles_file \in InitialProfilesFiles
    /\ _profiles_data = None
    /\ credentials_file \in
          {NoCredentials, MalformedCredentials, Credentials(NoneStr),
           Credentials("cred-tok")}
    /\ config_file \in
          {NoConfigFile, MalformedConfigFile, ConfigFile(GHLConfig(NoneStr)),
           ConfigFile(GHLConfig("cfg-loc"))}
    /\ _config = None
    /\ keyring_available \in BOOLEAN
    /\ keyring_token \in {NoneStr, "kr-tok"}
    /\ env_token \in {NoneStr, "", "env-tok"}
    /\ env_location \in {NoneStr, "env-loc"}
    /\ op = Op("__init__", <<>>)
    /\ ret = Ok(NoneStr)
    /\ _profiles_data_2 = None
    /\ instance = "first"
    /\ running = NoCalls

ResolveNext ==
    \/ GetToken
    \/ GetLocationId
    \/ GetActiveProfileName
    \/ ListProfiles
    \/ ConfigAccess

ResolveSpec == ResolveInit /\ [][ResolveNext]_vars

\* The store constructed over an unparsable profiles file and an unparsable
\* config file, under every sequence of its operations.
CorruptInit ==
    /\ ClientIdle
    /\ profiles_file = MalformedFile
    /\ _profiles_data = None
    /\ credentials_file \in {NoCredentials, MalformedCredentials}
    /\ config_file = MalformedConfigFile
    /\ _config = None
    /\ keyring_available \in BOOLEAN
    /\ keyring_token = NoneStr
    /\ env_token = NoneStr
    /\ env_location = NoneStr
    /\ op = Op("__init__", <<>>)
    /\ ret = Ok(NoneStr)
    /\ _profiles_data_2 = None
    /\ instance = "first"
    /\ running = NoCalls

CorruptSpec == CorruptInit /\ [][StoreNext]_vars

\* Two ConfigManager instances over one profiles file, the file operations
\* of their calls interleaved in every order.
SharedInit ==
    /\ StoreInit
    /\ profiles_file \in SharedProfilesFiles
    /\ ~keyring_available

SharedNext ==
    \E i \in Instances :
       \/ \E o \in SharedOps : StoreCall(i, o)
       \/ LoadExists(i)
       \/ LoadRead(i)
       \/ SaveOpen(i)
       \/ SaveWrite(i)
       \/ SaveChmod(i)
       \/ ClearExists(i)
       \/ ClearUnlink(i)

SharedSpec == SharedInit /\ [][SharedNext]_vars

\* ------------------------------------------------------------------------
\* Properties of the client (specification Spec)
\* ------------------------------------------------------------------------
LastStatus == IF IsNone(response) THEN NoneInt ELSE Get(response).status_code

\* The step in which the response of an attempt arrives: _handle_rate_limit
\* updates the record and starts its sleep, if it makes one.
HandledResponse ==
    /\ pc = "waiting"
    /\ pc' # "waiting"
    /\ outcome'.kind # "TransportError"

\* The step in which request() is through with a response: it retries,
\* returns or raises, at once or when its sleep is over.
DealtWith ==
    /\ pc \in {"waiting", "sleeping"}
    /\ pc' \in {"loop", "idle"}
    /\ outcome'.kind # "TransportError"

\* The RateLimitInfo a 429 backoff is computed from (line 129).
BackoffInfo ==
    IF ~IsNone(_rate_limit_info)
    THEN Get(_rate_limit_info)
    ELSE from_headers(Get(response).headers)

\* C1: a response that carries none of x-ratelimit-remaining, x-ratelimit-max,
\* x-ratelimit-limit leaves _rate_limit_info exactly as it was before the
\* response was handled (None stays None, a tracked value keeps its four
\* fields), whatever the status of the response.
C1_NoHeadersKeepInfo ==
    [][ /\ (HandledResponse /\ ~has_rate_limit_headers(Get(response').headers))
            => _rate_limit_info' = _rate_limit_info
        /\ pc = "sleeping" => _rate_limit_info' = _rate_limit_info
      ]_vars

\* C1 witness: a tracked value (remaining 3 of 100) has survived a 429
\* response that carried interval and reset headers but no rate-limit header.
C1_Witness ==
    /\ LastStatus = 429
    /\ ~has_rate_limit_headers(Get(response).headers)
    /\ Get(response).headers["x-ratelimit-interval-milliseconds"] = 20000
    /\ _rate_limit_info = Some(RateLimitInfo(100, 3, NoneInt, DefaultIntervalMs))
    /\ pc = "loop"

\* C2: at most max_retries HTTP calls are made by one request(), all of them
\* the same call; a 429 is followed by a backoff sleep of at least
\* interval_ms, during which nothing is sent; when the sleep is over after a
\* 429 answered while attempts remain, request() is in the loop with its next
\* attempt due, and every attempt but the first follows a 429; after a 429 on
\* the max_retries-th attempt request() has ended with APIError 429.
C2_RetryOn429 ==
    /\ Len(sent) <= call.max_retries
    /\ \A i \in 1 .. Len(sent) : sent[i] = wire_request(call, params)
    /\ pc = "loop" =>
          /\ Len(sent) = attempt
          /\ attempt < call.max_retries
          /\ attempt > 0 => LastStatus = 429
    /\ pc \in {"waiting", "sleeping"} =>
          /\ Len(sent) = attempt + 1
          /\ outcome = NoOutcome
    /\ (pc = "waiting" /\ attempt > 0) => LastStatus = 429
    /\ (LastStatus = 429 /\ outcome.kind # "TransportError") =>
          /\ sleep_kind = "backoff"
          /\ sleep_ms >= BackoffInfo.interval_ms
          /\ pc = "loop" => Len(sent) < call.max_retries
          /\ pc = "idle" =>
                /\ Len(sent) = call.max_retries
                /\ outcome.kind = "APIError"
                /\ outcome.status_code = 429

\* C2 witness: the third of three allowed attempts was answered 429 like the
\* two before it, and request() has raised.
C2_Witness ==
    /\ call.max_retries = 3
    /\ Len(sent) = 3
    /\ backoffs = 3
    /\ LastStatus = 429
    /\ pc = "idle"
    /\ outcome.kind = "APIError"

\* C3: a response with a status >= 400 other than 429 ends request() with
\* an APIError carrying that status, at once or when the proactive delay made
\* for it is over; no attempt follows it, however many remain.
C3_ErrorNotRetried ==
    (LastStatus >= 400 /\ LastStatus # 429 /\ outcome.kind # "TransportError") =>
        /\ Len(sent) = attempt + 1
        /\ pc \in {"sleeping", "idle"}
        /\ pc = "sleeping" =>
              /\ sleep_kind = "proactive"
              /\ outcome = NoOutcome
        /\ pc = "idle" =>
              /\ outcome.kind = "APIError"
              /\ outcome.status_code = LastStatus

\* C3 witness: a 500 on the second of three allowed attempts (the first was
\* a 429) has been raised with one attempt left unused.
C3_Witness ==
    /\ LastStatus = 500
    /\ call.max_retries = 3
    /\ Len(sent) = 2
    /\ pc = "idle"
    /\ outcome.kind = "APIError"
    /\ outcome.status_code = 500

\* C4: request() never ends in the post-loop RuntimeError("Exhausted
\* retries"), whatever max_retries is.
C4_ExhaustedUnreachable == outcome.kind # "RuntimeError"

\* The step issued an HTTP call (an iteration of the loop began).
MadeAttempt == Len(sent') = Len(sent) + 1

\* The step in which self.client.request raised instead of answering.
TransportRaised == pc = "waiting" /\ outcome'.kind = "TransportError"

\* C24: an attempt in which the transport raises ends request() at once with
\* the transport's exception, whatever number of attempts is left: the
\* failed attempt is the last HTTP call of that request(), no sleep is made
\* for it, the count of backoff sleeps and the RateLimitInfo stay as they
\* were, and no response is recorded for it.  So a request() whose first
\* attempt failed in the transport has made that one call and no sleep, and
\* a request() still in its loop has made one backoff sleep per attempt
\* behind it, each for a 429 it was answered.  While request() waits for the
\* server the call has been sent and nothing else has changed; the wait ends
\* with a response or with the transport's exception.
C24_TransportNotRetried ==
    /\ [](outcome.kind = "TransportError" => (pc = "idle" /\ Len(sent) = attempt + 1))
    /\ []((Len(sent) > 0 /\ IsNone(response)) =>
             /\ \/ pc = "waiting" /\ outcome = NoOutcome
                \/ pc = "idle" /\ outcome = TransportError
             /\ Len(sent) = 1
             /\ sleep_kind = "none"
             /\ backoffs = 0)
    /\ [](pc \in {"loop", "waiting"} => backoffs = attempt)
    /\ [][ /\ TransportRaised =>
                 /\ outcome' = TransportError
                 /\ pc' = "idle"
                 /\ sleep_kind' = "none"
                 /\ sleep_ms' = 0
                 /\ UNCHANGED <<_rate_limit_info, backoffs, response, attempt, sent,
                                last_headers>>
           /\ (pc = "waiting" /\ pc' # "waiting") =>
                 \/ TransportRaised
                 \/ /\ ~IsNone(response')
                    /\ last_headers' = Some(Get(response').headers)
                    /\ pc' = "loop" => Get(response').status_code = 429
           /\ outcome.kind = "TransportError" => ~MadeAttempt
         ]_vars

\* C24 witness: the second of three allowed attempts (the first was answered
\* 429 with remaining 0 of 50) failed in the transport; request() has ended
\* with the transport's exception, one attempt unused, one backoff made, the
\* RateLimitInfo of the 429 still held.
C24_Witness ==
    /\ outcome = TransportError
    /\ call.max_retries = 3
    /\ Len(sent) = 2
    /\ attempt = 1
    /\ backoffs = 1
    /\ LastStatus = 429
    /\ sleep_kind = "none"
    /\ _rate_limit_info = Some(RateLimitInfo(50, 0, 1030, 20000))
    /\ pc = "idle"

\* C17: when a response other than a 429 has been handled, request() has
\* slept the fixed proactive delay, before returning or raising, exactly when
\* the RateLimitInfo held after the update from that response has remaining
\* below the low-water mark; with remaining at or above it, or with no
\* RateLimitInfo ever recorded, it has not slept at all.
C17_ProactiveDelay ==
    [][ /\ (HandledResponse /\ Get(response').status_code # 429) =>
              IF ~IsNone(_rate_limit_info')
                 /\ Get(_rate_limit_info').remaining < LowWaterMark
              THEN /\ sleep_kind' = "proactive" /\ sleep_ms' = ProactiveDelayMs
                   /\ pc' = "sleeping"
                   /\ outcome' = NoOutcome
              ELSE /\ sleep_kind' = "none" /\ sleep_ms' = 0
                   /\ pc' = "idle"
                   /\ outcome'.kind \in {"return", "APIError"}
        /\ (pc = "sleeping" /\ sleep_kind = "proactive") =>
              /\ Get(response).status_code # 429
              /\ pc' = "idle"
              /\ outcome'.kind \in {"return", "APIError"}
              /\ UNCHANGED <<sleep_kind, sleep_ms, _rate_limit_info, sent>>
      ]_vars

\* C17 witness: a 404 without rate-limit headers has been raised after the
\* proactive delay, the remaining 3 having been recorded from an earlier
\* response.
C17_Witness ==
    /\ LastStatus = 404
    /\ ~has_rate_limit_headers(Get(response).headers)
    /\ _rate_limit_info = Some(RateLimitInfo(100, 3, NoneInt, DefaultIntervalMs))
    /\ sleep_kind = "proactive"
    /\ sleep_ms = ProactiveDelayMs
    /\ pc = "idle"
    /\ outcome.kind = "APIError"
    /\ outcome.status_code = 404

\* The rate-limit state a record stands for: no record, a record with quota
\* left, a record below the low-water mark.
RateState(info) ==
    IF IsNone(info) THEN "no-info"
    ELSE IF Get(info).remaining < LowWaterMark THEN "throttling"
         ELSE "tracking"

\* "blocked" is the backoff sleep of a 429 (time.sleep, line 133).
Blocked == pc = "sleeping" /\ sleep_kind = "backoff"

\* The transitions claimed by C22 apart from the state after a backoff: the
\* client leaves no-info exactly in a step that handles a response carrying
\* a recognized rate-limit header, never returns to no-info, changes its
\* record only while handling a response, and every sleep is started by the
\* response that triggered it (backoff for a 429, the proactive delay
\* otherwise) and is over before request() retries, returns or raises.
TransitionsByResponse ==
    /\ (RateState(_rate_limit_info) = "no-info"
          /\ RateState(_rate_limit_info') # "no-info")
        <=> (/\ HandledResponse
             /\ IsNone(_rate_limit_info)
             /\ has_rate_limit_headers(Get(response').headers))
    /\ RateState(_rate_limit_info) # "no-info"
          => RateState(_rate_limit_info') # "no-info"
    /\ _rate_limit_info' # _rate_limit_info => HandledResponse
    /\ HandledResponse =>
          /\ sleep_kind' = "backoff" <=> Get(response').status_code = 429
          /\ sleep_kind' = "proactive" <=>
                (/\ Get(response').status_code # 429
                 /\ RateState(_rate_limit_info') = "throttling")
          /\ pc' = "sleeping" <=> sleep_kind' # "none"
    /\ ~HandledResponse =>
          /\ \/ sleep_kind' = "none" /\ sleep_ms' = 0
             \/ UNCHANGED <<sleep_kind, sleep_ms>>
          /\ pc' = "sleeping" => pc = "sleeping"
    /\ pc = "sleeping" =>
          /\ outcome = NoOutcome
          /\ pc' \in {"sleeping", "loop", "idle"}
          /\ UNCHANGED <<sleep_kind, sleep_ms, _rate_limit_info, sent, response>>
    /\ Blocked' => LastStatus' = 429

\* C22 as stated: the transitions above, and when the backoff sleep of a 429
\* ends the client is tracking, that is, it holds a RateLimitInfo.
C22_BackToTracking ==
    [][ /\ TransitionsByResponse
        /\ (Blocked /\ ~Blocked') => RateState(_rate_limit_info') # "no-info"
      ]_vars

\* C22 amended: the transitions above, and after the backoff sleep of a 429
\* the client is in the state of the record it holds then: the record of the
\* 429's headers if it carried a recognized rate-limit header, else the
\* record it held before, and still no-info when it held none (the defaults
\* the backoff was computed from are not stored).
C22_StateFollowsRecord ==
    [][ /\ TransitionsByResponse
        /\ (Blocked /\ ~Blocked') =>
              /\ pc' \in {"loop", "idle"}
              /\ RateState(_rate_limit_info') = RateState(_rate_limit_info)
        /\ (HandledResponse /\ Get(response').status_code = 429) =>
              /\ Blocked'
              /\ RateState(_rate_limit_info') =
                    (IF has_rate_limit_headers(Get(response').headers)
                     THEN RateState(Some(from_headers(Get(response').headers)))
                     ELSE RateState(_rate_limit_info))
              /\ (IsNone(_rate_limit_info)
                    /\ ~has_rate_limit_headers(Get(response').headers))
                  => RateState(_rate_limit_info') = "no-info"
      ]_vars

\* C22 witness: a client that has never seen a rate-limit header was
\* answered 429 without one, has slept the default backoff and is about to
\* retry, still without a record.
C22_Witness ==
    /\ LastStatus = 429
    /\ ~has_rate_limit_headers(Get(response).headers)
    /\ sleep_kind = "backoff"
    /\ sleep_ms = DefaultIntervalMs + BufferMs
    /\ pc = "loop"
    /\ attempt = 1
    /\ RateState(_rate_limit_info) = "no-info"

\* The last response this client handled carried x-ratelimit-remaining: 3 and
\* x-ratelimit-max: 100, and the first HTTP call of the next request() has
\* been issued.
NextCallAfterLowQuota ==
    /\ ~IsNone(last_headers)
    /\ Get(last_headers)["x-ratelimit-remaining"] = 3
    /\ Get(last_headers)["x-ratelimit-max"] = 100
    /\ pc = "waiting"
    /\ attempt = 0
    /\ Len(sent) = 1

\* C18 as stated: after a response with x-ratelimit-remaining: 3 and
\* x-ratelimit-max: 100, the next call on the client has slept the proactive
\* delay when it returns or raises on its first response, whatever that
\* response carries.
C18_AlwaysDelayed ==
    [][ (NextCallAfterLowQuota /\ HandledResponse
           /\ Get(response').status_code # 429) =>
          (sleep_kind' = "proactive" /\ sleep_ms' = ProactiveDelayMs)
      ]_vars

\* C18 amended: after such a response the client holds remaining 3 of 100
\* when the next call starts, and the first response of that call decides:
\* one that is not a 429 and carries no rate-limit header, or carries a
\* remaining below the low-water mark, is returned or raised after the
\* proactive delay; one that carries rate-limit headers with remaining at or
\* above the mark (100 when it names only a limit) is returned or raised
\* without any sleep; a 429 is followed by the backoff sleep instead.
C18_DelayedUnlessReplenished ==
    [][ (NextCallAfterLowQuota /\ HandledResponse) =>
          LET resp == Get(response')
          IN  /\ ~IsNone(_rate_limit_info)
              /\ Get(_rate_limit_info).remaining = 3
              /\ Get(_rate_limit_info).limit = 100
              /\ IF resp.status_code = 429
                 THEN sleep_kind' = "backoff"
                 ELSE IF \/ ~has_rate_limit_headers(resp.headers)
                         \/ from_headers(resp.headers).remaining < LowWaterMark
                      THEN /\ sleep_kind' = "proactive"
                           /\ sleep_ms' = ProactiveDelayMs
                           /\ pc' = "sleeping"
                           /\ outcome' = NoOutcome
                      ELSE /\ sleep_kind' = "none"
                           /\ sleep_ms' = 0
                           /\ pc' = "idle"
                           /\ outcome'.kind \in {"return", "APIError"}
      ]_vars

\* C18 witness: the call after the response with remaining 3 of 100 was
\* answered 200 without rate-limit headers on its first attempt and has
\* returned after the proactive delay.
C18_Witness ==
    /\ Len(sent) = 1
    /\ LastStatus = 200
    /\ ~has_rate_limit_headers(Get(response).headers)
    /\ last_headers = Some(Get(response).headers)
    /\ _rate_limit_info = Some(RateLimitInfo(100, 3, NoneInt, DefaultIntervalMs))
    /\ sleep_kind = "proactive"
    /\ sleep_ms = ProactiveDelayMs
    /\ pc = "idle"
    /\ outcome.kind = "return"

\* The values of request() that are mappings: {}, a parsed JSON object, and
\* the {text: ...} fallback.
Mappings ==
    {"{}"} \cup {response_json(b) : b \in ObjectBodies}
           \cup {"{text: " \o response_text(b) \o "}" : b \in BodySamples}

\* C19: for every response with a status below 400, request() returns a
\* mapping, never None: {} for a 204 whatever the body, the parsed body for
\* any other status, and {text: raw body} for a body that does not parse.
C19_SuccessReturnsMapping ==
    (~IsNone(response) /\ LastStatus < 400 /\ pc = "idle"
       /\ outcome.kind # "TransportError") =>
        /\ outcome.kind = "return"
        /\ outcome.value \in Mappings
        /\ outcome.value # "None"
        /\ LastStatus = 204 => outcome.value = "{}"
        /\ (LastStatus # 204 /\ Get(response).body \in {"not-json", "empty"}) =>
              outcome.value = "{text: " \o response_text(Get(response).body) \o "}"
        /\ (LastStatus # 204 /\ Get(response).body \in ObjectBodies) =>
              outcome.value = response_json(Get(response).body)

\* ------------------------------------------------------------------------
\* Properties of the store (specifications StoreSpec and ResolveSpec)
\* ------------------------------------------------------------------------
\* What the store's reads answer in the current state.
Token == get_token(env_token, Data, credentials_file, keyring_available, keyring_token)
LocationId == get_location_id(env_location, Data, Config)
Dangling == ~Falsy(Data.active) /\ Data.active \notin ProfileNames(Data.profiles)
Healed == ProfilesData(NoneStr, Data.profiles)

\* C5: in every state of the store, one loaded from a file whose active name
\* is no profile included, get_active_profile_name() is None or a key of
\* profiles, and with a dangling active name get_token() and
\* get_location_id() answer as with no active name and list_profiles()
\* flags no entry.
C5_ActiveSelfHeals ==
    /\ get_active_profile_name(Data) \in ProfileNames(Data.profiles) \cup {NoneStr}
    /\ op.name = "get_active_profile_name" =>
          ret.value \in ProfileNames(Data.profiles) \cup {NoneStr}
    /\ Dangling =>
          /\ get_active_profile_name(Data) = NoneStr
          /\ Token = get_token(env_token, Healed, credentials_file,
                               keyring_available, keyring_token)
          /\ LocationId = get_location_id(env_location, Healed, Config)
          /\ \A i \in 1 .. Len(list_profiles(Data)) : ~list_profiles(Data)[i][2]

\* C5 witness: the file named "c" active without a profile "c"; after
\* remove_profile("a") the pointer still dangles, over a remaining profile.
C5_Witness ==
    /\ op = Op("remove_profile", <<"a">>)
    /\ ~ret.raised
    /\ Data.active = "c"
    /\ ProfileNames(Data.profiles) = {"b"}
    /\ profiles_file = JsonFile(Data)

\* C6: get_token() answers the environment's token when one is set, else the
\* active profile's, else the credentials file's token, and the keyring's only
\* below these.
C6_TokenPrecedence ==
    LET profile == active_profile(Data)
        result == IF op.name = "get_token" THEN ret.value ELSE Token
    IN  /\ result = Token
        /\ ~Falsy(env_token) => result = env_token
        /\ (Falsy(env_token) /\ ~IsNone(profile)) => result = Get(profile).api_token
        /\ (Falsy(env_token) /\ IsNone(profile) /\ credentials_file.kind = "json"
              /\ credentials_file.api_token # NoneStr) =>
                 result = credentials_file.api_token
        /\ (keyring_available /\ result = keyring_token /\ result # NoneStr) =>
              /\ Falsy(env_token)
              /\ IsNone(profile)
              /\ credentials_file.api_token = NoneStr

\* C6 witness: get_token() has answered the environment's token over an
\* active profile holding another, a credentials file and a keyring entry.
C6_Witness ==
    /\ op.name = "get_token"
    /\ ret.value = "env-tok"
    /\ env_token = "env-tok"
    /\ ~IsNone(active_profile(load_profiles_data(None, profiles_file)))
    /\ credentials_file = Credentials("cred-tok")
    /\ keyring_available /\ keyring_token = "kr-tok"

\* C7: get_token() is None only when no source holds a token: if the
\* environment, the active profile, the credentials file or the keyring holds
\* one, the answer is not None.
C7_NoneOnlyOnTotalMiss ==
    op.name = "get_token" =>
        ( ( \/ ~Falsy(env_token)
            \/ ~IsNone(active_profile(Data))
            \/ credentials_file.kind = "json" /\ credentials_file.api_token # NoneStr
            \/ keyring_available /\ ~Falsy(keyring_token) )
          => ret.value # NoneStr )

\* C8: add_or_update_profile(name, ..) makes name active exactly when the
\* stored active name is unset or no key of profiles before the call, and
\* leaves the pointer alone otherwise; from the empty store, adding "a" and then
\* "b" gives list_profiles() = [("a", True), ("b", False)].
C8_AddActivates ==
    [][ op'.name = "add_or_update_profile" =>
          LET name == op'.args[1]
              before == Data
              after == Data'
          IN  /\ after.active =
                    IF Falsy(before.active)
                         \/ before.active \notin ProfileNames(before.profiles)
                    THEN name ELSE before.active
              /\ (before = EmptyData /\ name = "a") =>
                    list_profiles(after) = << <<"a", TRUE>> >>
              /\ (before.active = "a" /\ ProfileNames(before.profiles) = {"a"}
                    /\ name = "b") =>
                    list_profiles(after) = << <<"a", TRUE>>, <<"b", FALSE>> >>
      ]_vars

\* C8 witness: "b" has been added to a store holding the active "a" alone.
C8_Witness ==
    /\ op.name = "add_or_update_profile"
    /\ op.args[1] = "b"
    /\ Data.active = "a"
    /\ Len(Data.profiles) = 2
    /\ Data.profiles[1].name = "a"
    /\ list_profiles(Data) = << <<"a", TRUE>>, <<"b", FALSE>> >>

\* C9: remove_profile(name) of the active profile leaves the pointer on one
\* of the remaining profiles if any remains and None if none does, never on
\* name; remove_profile of another profile leaves the pointer unchanged.
C9_RemoveReassigns ==
    [][ (op'.name = "remove_profile" /\ ~ret'.raised) =>
          LET name == op'.args[1]
              before == Data
              after == Data'
          IN  /\ name \notin ProfileNames(after.profiles)
              /\ IF before.active = name
                 THEN /\ after.active # name
                      /\ IF after.profiles # <<>>
                         THEN after.active \in ProfileNames(after.profiles)
                         ELSE after.active = NoneStr
                 ELSE after.active = before.active
      ]_vars

\* C9 witness: the active "c" has been removed from profiles c, b, a (in the
\* file's order) and the pointer is on "b".
C9_Witness ==
    /\ op = Op("remove_profile", <<"c">>)
    /\ ret = Ok("c")
    /\ Data.active = "b"
    /\ Len(Data.profiles) = 2
    /\ Data.profiles[2].name = "a"

\* C10: set_active_profile and remove_profile with an unknown name raise and
\* leave the store's data and every file as they were; set_active_profile
\* with a known name stores and persists active = name and changes neither the
\* profiles nor anything else.
C10_UnknownNameRaises ==
    [][ op'.name \in {"set_active_profile", "remove_profile"} =>
          LET name == op'.args[1]
              known == name \in ProfileNames(Data.profiles)
          IN  /\ ~known =>
                    /\ ret' = Raised("ValueError")
                    /\ Data' = Data
                    /\ profiles_file' = profiles_file
              /\ (known /\ op'.name = "set_active_profile") =>
                    /\ ~ret'.raised
                    /\ Data' = ProfilesData(name, Data.profiles)
                    /\ profiles_file' = JsonFile(Data')
              /\ known => ~ret'.raised
              /\ UNCHANGED <<credentials_file, config_file, _config,
                             keyring_available, keyring_token, env_token,
                             env_location>>
      ]_vars

\* C10 witness: set_active_profile("c") has raised over a store that holds
\* other profiles, its file still naming the old active profile.
C10_Witness ==
    /\ op = Op("set_active_profile", <<"c">>)
    /\ ret = Raised("ValueError")
    /\ Data.active = "a"
    /\ Len(Data.profiles) = 2
    /\ profiles_file = JsonFile(Data)

\* C11: add_or_update_profile(name, t, l) is idempotent: the data a call
\* leaves is a fixed point of the same call, the file it leaves is that data
\* written out, and a second call with identical arguments right after the
\* first leaves the profiles file, the data and the active pointer as the
\* first left them.
C11_AddIdempotent ==
    [][ op'.name = "add_or_update_profile" =>
          LET name == op'.args[1]
              api_token == op'.args[2]
              loc == op'.args[3]
          IN  /\ profiles_file' = JsonFile(Data')
              /\ added(Data', name, api_token, loc) = Data'
              /\ op = op' =>
                    /\ profiles_file' = profiles_file
                    /\ Data' = Data
                    /\ Data'.active = Data.active
      ]_vars

\* C11 witness: add_or_update_profile("b", "t2", "l2") has acted on a store
\* whose active profile is "a"; "b" is stored once, "a" is still active, and
\* the same call again would write the same file.
C11_Witness ==
    /\ op = Op("add_or_update_profile", <<"b", "t2", "l2">>)
    /\ Data.active = "a"
    /\ Data.profiles = <<Entry("a", "t1", "l1"), Entry("b", "t2", "l2")>>
    /\ profiles_file = JsonFile(Data)
    /\ JsonFile(added(Data, "b", "t2", "l2")) = profiles_file

\* C12: set_token(token, use_keyring) writes the token to one destination.
\* With an active profile, that profile's api_token becomes token, its
\* location_id, the other profiles and the pointer stay, the profiles file is
\* the data written out, and neither the credentials file nor the keyring
\* changes.  Without one, the profiles are untouched and the token goes to
\* the keyring when use_keyring is set and the keyring accepts it, and
\* otherwise to the credentials file as api_token, the other of the two
\* staying as it was.
C12_SetTokenOneDestination ==
    [][ op'.name = "set_token" =>
          LET token == op'.args[1]
              use_keyring == op'.args[2] = "True"
              before == Data
              after == Data'
              active_name == get_active_profile_name(before)
          IN  /\ ~ret'.raised
              /\ IF ~IsNone(active_profile(before))
                 THEN /\ after.active = before.active
                      /\ Len(after.profiles) = Len(before.profiles)
                      /\ \A i \in 1 .. Len(before.profiles) :
                            after.profiles[i] =
                               IF before.profiles[i].name = active_name
                               THEN Entry(active_name, token,
                                          before.profiles[i].location_id)
                               ELSE before.profiles[i]
                      /\ profiles_file' = JsonFile(after)
                      /\ UNCHANGED <<credentials_file, keyring_token>>
                 ELSE /\ after = before
                      /\ UNCHANGED profiles_file
                      /\ IF use_keyring /\ keyring_available
                         THEN keyring_token' = token /\ UNCHANGED credentials_file
                         ELSE /\ credentials_file' = Credentials(token)
                              /\ UNCHANGED keyring_token
              /\ UNCHANGED <<config_file, _config, keyring_available, env_token,
                             env_location>>
      ]_vars

\* C12 witness: set_token("t2") has rewritten the token of the active
\* profile "a" beside a profile "b", while a credentials file written
\* earlier, when no profile existed, still holds "t1".
C12_Witness ==
    /\ op = Op("set_token", <<"t2", "False">>)
    /\ Data.active = "a"
    /\ Data.profiles = <<Entry("a", "t2", "l1"), Entry("b", "t1", "l1")>>
    /\ profiles_file = JsonFile(Data)
    /\ credentials_file = Credentials("t1")
    /\ keyring_token = NoneStr

\* C13: update_config(location_id=X) with X not None stores X as the
\* location_id of the standalone config, in memory and in the config file;
\* with an active profile it also sets that profile's location_id to X and
\* keeps its api_token, the pointer and the other profiles; without one the
\* profiles stay as they were.  With no GHL_LOCATION_ID in the environment
\* get_location_id() answers X afterwards.
C13_UpdateConfigMirrors ==
    [][ /\ (op'.name = "update_config" /\ op'.args[1] # NoneStr) =>
             LET X == op'.args[1]
                 before == Data
                 after == Data'
                 active_name == get_active_profile_name(before)
             IN  /\ ret' = Ok(X)
                 /\ config_file' = ConfigFile(GHLConfig(X))
                 /\ Config'.location_id = X
                 /\ IF ~IsNone(active_profile(before))
                    THEN /\ active_profile(after) =
                               Some([api_token |-> Get(active_profile(before)).api_token,
                                     location_id |-> X])
                         /\ after.active = before.active
                         /\ Len(after.profiles) = Len(before.profiles)
                         /\ \A i \in 1 .. Len(before.profiles) :
                               before.profiles[i].name # active_name =>
                                  after.profiles[i] = before.profiles[i]
                         /\ profiles_file' = JsonFile(after)
                    ELSE after = before /\ UNCHANGED profiles_file
                 /\ Falsy(env_location') => LocationId' = X
        /\ (op.name = "update_config" /\ op.args[1] # NoneStr
              /\ op'.name = "get_location_id" /\ Falsy(env_location)) =>
             ret' = Ok(op.args[1])
      ]_vars

\* C13 witness: update_config(location_id="l2") has moved the active profile
\* "a" to "l2" with its token, beside a profile "b" still at "l1", and the
\* config file holds "l2".
C13_Witness ==
    /\ op = Op("update_config", <<"l2">>)
    /\ ret = Ok("l2")
    /\ Data.active = "a"
    /\ Data.profiles = <<Entry("a", "t1", "l2"), Entry("b", "t2", "l1")>>
    /\ profiles_file = JsonFile(Data)
    /\ config_file = ConfigFile(GHLConfig("l2"))
    /\ LocationId = "l2"

\* C14: clear_token() and clear_profiles() are idempotent deletions.  Neither
\* raises, whether or not anything is stored; clear_token() leaves no
\* credentials file and touches no profile; clear_profiles() leaves no
\* profiles file, no profile and no active name, and touches no token; a
\* second call right after the first changes nothing in the store.
C14_ClearIdempotent ==
    [][ /\ op'.name = "clear_token" =>
             /\ ~ret'.raised
             /\ credentials_file' = NoCredentials
             /\ keyring_available => keyring_token' = NoneStr
             /\ Data' = Data
             /\ UNCHANGED <<profiles_file, config_file, _config>>
             /\ op = op' =>
                   UNCHANGED <<credentials_file, keyring_token, _profiles_data>>
        /\ op'.name = "clear_profiles" =>
             /\ ~ret'.raised
             /\ profiles_file' = AbsentFile
             /\ Data' = EmptyData
             /\ list_profiles(Data') = <<>>
             /\ get_active_profile_name(Data') = NoneStr
             /\ UNCHANGED <<credentials_file, keyring_token, config_file, _config>>
             /\ op = op' => UNCHANGED <<profiles_file, _profiles_data>>
      ]_vars

\* C14 witness: clear_profiles() has emptied a store that had an active
\* profile moved by update_config (the config file still holds "l2") and a
\* credentials file, which stays.
C14_Witness ==
    /\ op = Op("clear_profiles", <<>>)
    /\ ~ret.raised
    /\ profiles_file = AbsentFile
    /\ _profiles_data = Some(EmptyData)
    /\ credentials_file = Credentials("t1")
    /\ config_file = ConfigFile(GHLConfig("l2"))

\* ------------------------------------------------------------------------
\* Properties of two stores over one profiles file (specification SharedSpec)
\* ------------------------------------------------------------------------
\* An instance never observes what the other writes after its first load: a
\* loaded cache is changed by the calls of its own instance only, and the
\* file is read only by an instance that has nothing cached.
CacheIsPrivate ==
    [][ \A i \in Instances :
          LET before == IF i = "first" THEN _profiles_data ELSE _profiles_data_2
              after == IF i = "first" THEN _profiles_data' ELSE _profiles_data_2'
          IN  /\ after # before => running[i].pc \in {"load", "read", "clear"}
              /\ running[i].pc = "read" => IsNone(before)
      ]_vars

\* The write of an instance leaves in the file the complete in-memory state
\* of that instance: a fresh load of the file gives exactly its dict.
WriterWins ==
    [][ \A i \in Instances :
          (running[i].pc = "write" /\ running'[i].pc = "chmod") =>
             profiles_file' = JsonFile(Get(Cache(i)))
      ]_vars

\* C15: with two instances over one profiles file and no locking, an
\* instance reads the file on its first load only and never observes what
\* the other writes later; and under every interleaving of their writes the
\* file an instance has just written holds the complete in-memory state of
\* that instance (the last writer wins), so that what the other instance
\* added after the writer's load is not in the file.
C15_LastWriterWins == CacheIsPrivate /\ WriterWins

\* ------------------------------------------------------------------------
\* Properties of the store over corrupt files (specification CorruptSpec)
\* ------------------------------------------------------------------------
ReadOps == {"get_token", "get_location_id", "get_active_profile_name",
            "list_profiles", "config"}

\* C16: over an unparsable profiles file the store is the empty store (no
\* profile, no active name, the token and the location resolved as without
\* profiles) and over an unparsable config file the config is the default
\* one; no read raises, and no call raises but set_active_profile and
\* remove_profile of a name the store does not hold.  A read leaves every
\* file as it is; an unparsable file changes only by a call that succeeds in
\* writing it, and is parsable or gone afterwards.
C16_MalformedIsEmpty ==
    [][ /\ profiles_file.kind = "malformed" =>
             /\ Data = EmptyData
             /\ list_profiles(Data) = <<>>
             /\ get_active_profile_name(Data) = NoneStr
             /\ op'.name = "list_profiles" => ret' = Ok(<<>>)
             /\ op'.name = "get_active_profile_name" => ret' = Ok(NoneStr)
             /\ op'.name = "get_token" =>
                   ret' = Ok(get_token(env_token, EmptyData, credentials_file,
                                       keyring_available, keyring_token))
             /\ ret'.raised => op'.name \in {"set_active_profile", "remove_profile"}
             /\ profiles_file' # profiles_file =>
                   /\ op'.name \notin ReadOps
                   /\ ~ret'.raised
                   /\ profiles_file'.kind # "malformed"
                   /\ load_profiles_data(None, profiles_file') = Data'
        /\ config_file.kind = "malformed" =>
             /\ Config = GHLConfig(NoneStr)
             /\ (op'.name = "get_location_id" /\ profiles_file.kind = "malformed") =>
                   ret' = Ok(NoneStr)
             /\ config_file' # config_file =>
                   /\ op'.name \in {"update_config", "save_config",
                                    "config clear --all"}
                   /\ ~ret'.raised
                   /\ IF op'.name = "config clear --all"
                      THEN config_file' = NoConfigFile
                      ELSE config_file' = ConfigFile(Config')
        /\ op'.name \in ReadOps =>
             /\ ~ret'.raised
             /\ UNCHANGED <<profiles_file, config_file, credentials_file>>
      ]_vars

\* C16 witness: get_location_id() has answered None over an unparsable
\* profiles file and an unparsable config file, both loaded as empty and
\* both still on disk as they were.
C16_Witness ==
    /\ op = Op("get_location_id", <<>>)
    /\ ret = Ok(NoneStr)
    /\ profiles_file = MalformedFile
    /\ config_file = MalformedConfigFile
    /\ _profiles_data = Some(EmptyData)
    /\ _config = Some(GHLConfig(NoneStr))

\* ------------------------------------------------------------------------
\* Properties of the client's connection (specification ScopeSpec)
\* ------------------------------------------------------------------------
\* C20: the connection of a client is created lazily (none exists after
\* construction or after __enter__; one is created only by a step that issues
\* an HTTP call or by a read of the client property, and only when
\* the client holds none; request() waits and sleeps with it open), at most
\* one is open at
\* any time and it is the one _client holds; when a `with` block is left, by
\* its end or by an exception of the last request(), no connection remains
\* open; close() without a connection changes nothing.
C20_ConnectionScoped ==
    /\ [](/\ connections \in {0, 1}
          /\ connections = 1 <=> _client = "open"
          /\ _client = "None" => close(_client, connections) = <<_client, connections>>)
    /\ [](pc \in {"waiting", "sleeping"} => _client = "open")
    /\ [][ /\ connections' > connections =>
                /\ _client = "None"
                /\ scope' = scope
                /\ \/ MadeAttempt
                   \/ UNCHANGED <<pc, sent, outcome, call, params, attempt>>
           /\ (scope # "inside" /\ scope' = "inside") =>
                UNCHANGED <<_client, connections>>
           /\ (scope = "inside" /\ scope' = "exited") =>
                /\ _client' = "None"
                /\ connections' = 0
                /\ outcome' = outcome
         ]_vars

\* C20 witness: a `with` block has been left by the transport error of a
\* request() that had opened the connection, and no connection is open.
C20_Witness ==
    /\ scope = "exited"
    /\ outcome = TransportError
    /\ Len(sent) = 1
    /\ _client = "None"
    /\ connections = 0

\* ------------------------------------------------------------------------
\* Properties of two clients (specification WorkersSpec)
\* ------------------------------------------------------------------------
\* C21: the rate-limit state is per client instance.  Under every
\* interleaving of the worker threads, each with the client it made itself:
\* the RateLimitInfo of a worker's client changes only in a step of that
\* worker, either to None when the worker constructs a new client or, while
\* the client waits for the answer to a call it issued itself, to the
\* RateLimitInfo of that answer's headers; the record and the sleep the
\* handling of an answer leaves are functions of the client's own record and
\* of the answer, whatever the other client holds; and a step of one worker
\* leaves every attribute of the other worker's client as it was.
C21_RateLimitPerInstance ==
    [][ \A w \in WorkerNames :
          LET me == workers[w]
              mine == workers'[w]
          IN  /\ mine._rate_limit_info # me._rate_limit_info =>
                    /\ worker' = w
                    /\ \/ /\ me.scope \in {"none", "exited"}
                          /\ mine.scope = "made"
                          /\ IsNone(mine._rate_limit_info)
                       \/ /\ me.pc = "waiting"
                          /\ ~IsNone(mine.response)
                          /\ mine._rate_limit_info =
                                Some(from_headers(Get(mine.response).headers))
              /\ ( /\ worker' = w
                   /\ me.pc = "waiting"
                   /\ mine.pc # "waiting"
                   /\ mine.outcome.kind # "TransportError" ) =>
                    /\ mine._rate_limit_info =
                          updated_info(me._rate_limit_info, Get(mine.response))
                    /\ mine.sleep_kind =
                          rate_limit_sleep(mine._rate_limit_info,
                                           Get(mine.response), 1000)[1]
              /\ worker' # w => mine = me
      ]_vars

\* C21 witness: the worker load_contacts, answered remaining 3 of 100 to its
\* search, sleeps the proactive delay inside its `with` block, while the
\* worker load_contact_detail, whose first call was answered without
\* rate-limit headers, waits for the answer to its second call with no
\* record; each client holds what it saw itself.
C21_Witness ==
    /\ workers["load_contacts"].scope = "inside"
    /\ workers["load_contacts"].call.path = "/contacts/search"
    /\ workers["load_contacts"].pc = "sleeping"
    /\ workers["load_contacts"].sleep_kind = "proactive"
    /\ workers["load_contacts"]._rate_limit_info =
          Some(RateLimitInfo(100, 3, NoneInt, DefaultIntervalMs))
    /\ workers["load_contact_detail"].scope = "inside"
    /\ workers["load_contact_detail"].step = 2
    /\ workers["load_contact_detail"].pc = "waiting"
    /\ workers["load_contact_detail"]._rate_limit_info = None
    /\ worker = "load_contact_detail"

\* ------------------------------------------------------------------------
\* Properties of the query parameters (specification LocationSpec)
\* ------------------------------------------------------------------------
\* The <<key, value>> pairs of an Optional dict, None counting as no pairs.
Pairs(p) == IF IsNone(p) THEN {} ELSE {Get(p)[i] : i \in 1 .. Len(Get(p))}

\* The caller's parameters that have a value.
GivenPairs == {pair \in Pairs(call.params) : pair[2] # NoneStr}

\* C23: every HTTP call of a request() carries the caller's parameters
\* without the None-valued ones and, if include_location_id is true, the
\* client has a location and no parameter with a value is named
\* location_param, the client's location under location_param in addition;
\* a value the caller gave under location_param is sent as given, and with
\* include_location_id false or without a location nothing is added.  Every
\* attempt of the request() sends the same parameters.
C23_ParamsSent ==
    Len(sent) > 0 =>
        LET caller_set == \E pair \in GivenPairs : pair[1] = call.location_param
            inject == /\ call.include_location_id
                      /\ location_id \notin {NoneStr, ""}
                      /\ ~caller_set
        IN  /\ \A i \in 1 .. Len(sent) :
                  /\ sent[i].params = sent[1].params
                  /\ Pairs(sent[i].params) =
                        GivenPairs \cup
                        (IF inject THEN {<<call.location_param, location_id>>} ELSE {})
                  /\ \A pair \in Pairs(sent[i].params) : pair[2] # NoneStr
            /\ caller_set =>
                  \A pair \in GivenPairs : pair \in Pairs(sent[1].params)

\* C23 witness: a request() whose caller gave locationId and a None-valued
\* limit, on a client with a location of its own, has sent the caller's
\* locationId, and no limit, on its first attempt and on its retry.
C23_Witness ==
    /\ Len(sent) = 2
    /\ location_id = "loc1"
    /\ call.include_location_id
    /\ call.location_param = "locationId"
    /\ <<"limit", NoneStr>> \in Pairs(call.params)
    /\ Pairs(sent[2].params) = {<<"locationId", "callerLoc">>, <<"query", "x">>}
    /\ sent[1] = sent[2]

\* ------------------------------------------------------------------------
\* Properties of the backoff (specification BackoffSpec)
\* ------------------------------------------------------------------------
\* max(interval_ms / 1000, reset - now) + 0.1 s in ms; interval_ms alone plus
\* the buffer without a reset.
BackoffMs(interval_ms, reset) ==
    (IF reset = NoneInt
     THEN interval_ms
     ELSE Max(interval_ms, (reset - BackoffNow) * 1000)) + BufferMs

\* Was the step the handling of a 429?
Handled429 == HandledResponse /\ Get(response').status_code = 429

\* C25 as stated: the sleep made for a 429 is the backoff alone, computed
\* from the RateLimitInfo of the 429's headers if it carried a rate-limit
\* header, else from the RateLimitInfo tracked before, else from the
\* defaults (interval 10000 ms, no reset).
C25_BackoffFromDefaults ==
    [][ Handled429 =>
          LET h == Get(response').headers
              src == IF has_rate_limit_headers(h) THEN from_headers(h)
                     ELSE IF ~IsNone(_rate_limit_info) THEN Get(_rate_limit_info)
                     ELSE RateLimitInfo(DefaultLimit, DefaultRemaining, NoneInt,
                                        DefaultIntervalMs)
          IN  /\ sleep_kind' = "backoff"
              /\ sleep_ms' = BackoffMs(src.interval_ms, src.reset)
      ]_vars

\* C25 amended: the sleep made for a 429 is the backoff alone, computed from
\* the RateLimitInfo of the 429's headers if it carried a rate-limit header,
\* else from the RateLimitInfo tracked before, else from the interval and
\* reset headers of the 429 itself, the default interval (10000 ms) and no
\* reset standing in for those it lacks.
C25_BackoffFromResponse ==
    [][ Handled429 =>
          LET h == Get(response').headers
              own_interval ==
                  OrElse(h["x-ratelimit-interval-milliseconds"],
                         OrElse(h["x-ratelimit-interval-ms"], DefaultIntervalMs))
              own_reset ==
                  IF h["x-ratelimit-reset"] > 0 THEN h["x-ratelimit-reset"]
                  ELSE NoneInt
              tracked == ~has_rate_limit_headers(h) /\ ~IsNone(_rate_limit_info)
          IN  /\ sleep_kind' = "backoff"
              /\ sleep_ms' =
                    IF tracked
                    THEN BackoffMs(Get(_rate_limit_info).interval_ms,
                                   Get(_rate_limit_info).reset)
                    ELSE BackoffMs(own_interval, own_reset)
      ]_vars

\* C25 witness: a client without a record was answered 429 with an interval
\* of 20000 ms and a reset 30 s ahead but none of the headers that make a
\* record; it has slept 30.1 s and still holds no record.
C25_Witness ==
    /\ LastStatus = 429
    /\ Get(response).headers = Hdr(NoneInt, NoneInt, NoneInt, 20000, NoneInt, 1030)
    /\ IsNone(_rate_limit_info)
    /\ sleep_kind = "backoff"
    /\ sleep_ms = 30100
    /\ pc = "loop"

\* ------------------------------------------------------------------------
\* Properties of the profile commands (specification CommandSpec)
\* ------------------------------------------------------------------------
\* C26: after a `config profiles add NAME` that succeeded, and so reported
\* "Profile 'NAME' saved and set as active", NAME is the active profile of
\* the store, whatever the store held before.
C26_AddedIsActive ==
    (op.name = "profiles add" /\ ~ret.raised) =>
        /\ ret.value = "saved and set as active"
        /\ Data.active = strip(op.args[1])
        /\ get_active_profile_name(Data) = strip(op.args[1])

\* C27: without GHL_API_TOKEN, a get_token() that directly follows a
\* set_token(t, use_keyring) returns t, whatever the store held before
\* (active profile or none, credentials file or none) and for either value
\* of use_keyring.
C27_SetThenGet ==
    [][ (op.name = "set_token" /\ ~ret.raised /\ op'.name = "get_token"
         /\ Falsy(env_token)) =>
          (~ret'.raised /\ ret'.value = op.args[1])
      ]_vars

\* C28: within one request() every backoff sleep is followed by another
\* attempt.  A request() that has ended has slept once per retry it made,
\* that is, one time fewer than it made HTTP calls, and a 429 that ends
\* request() with the rate-limit error is raised without a sleep.
C28_NoSleepOnFinal429 ==
    /\ []((pc = "idle" /\ Len(sent) > 0) => backoffs = Len(sent) - 1)
    /\ [][ (Handled429 /\ attempt = call.max_retries - 1) =>
             /\ pc' = "idle"
             /\ outcome'.kind = "APIError"
             /\ outcome'.status_code = 429
             /\ sleep_kind' = "none"
             /\ backoffs' = backoffs
         ]_vars

\* The remaining a client tracks: NoneInt while it holds no RateLimitInfo.
TrackedRemaining(info) == IF IsNone(info) THEN NoneInt ELSE Get(info).remaining

\* C29: the remaining a client tracks is the x-ratelimit-remaining of the
\* most recent response that carried one.  Handling a response that carries
\* the header makes the tracked remaining that value; handling one that does
\* not (whatever other rate-limit headers it has) leaves the tracked
\* remaining as it was, and leaves a client that tracked nothing without a
\* record; no other step changes it.
C29_RemainingIsLastSeen ==
    [][ LET seen == Get(response').headers["x-ratelimit-remaining"]
        IN  /\ (HandledResponse /\ seen >= 0) =>
                  TrackedRemaining(_rate_limit_info') = seen
            /\ (HandledResponse /\ seen = NoneInt) =>
                  TrackedRemaining(_rate_limit_info') =
                     TrackedRemaining(_rate_limit_info)
            /\ ~HandledResponse =>
                  TrackedRemaining(_rate_limit_info') =
                     TrackedRemaining(_rate_limit_info)
      ]_vars

\* ------------------------------------------------------------------------
\* Properties of the store started empty (specification EmptyStoreSpec)
\* ------------------------------------------------------------------------
\* The pointer of data names one of its profiles if it has any and is None
\* if it has none, and list_profiles flags exactly one entry unless empty.
PointerValid(data) ==
    LET listed == list_profiles(data)
    IN  /\ Len(data.profiles) > 0 => data.active \in ProfileNames(data.profiles)
        /\ Len(data.profiles) = 0 <=> data.active = NoneStr
        /\ Len(listed) = Len(data.profiles)
        /\ Len(listed) > 0 =>
              Cardinality({i \in 1 .. Len(listed) : listed[i][2]}) = 1

\* C30: in a store started empty, after every sequence of
\* add_or_update_profile, set_active_profile, remove_profile, set_token,
\* update_config and clear_profiles calls, failed ones included, the stored
\* active pointer names an existing profile whenever there is a profile and
\* is None exactly when there is none, in memory and in the profiles file,
\* and list_profiles() flags exactly one entry as active unless it is empty.
C30_PointerValidFromEmpty ==
    /\ PointerValid(Data)
    /\ PointerValid(profiles_file.data)
    /\ (op.name = "list_profiles" /\ Len(ret.value) > 0) =>
          Cardinality({i \in 1 .. Len(ret.value) : ret.value[i][2]}) = 1

\* C30 witness: of three profiles added in the order a, b, c, the active
\* one, a, has been removed; the pointer has moved to b and the file says so.
C30_Witness ==
    /\ op = Op("remove_profile", <<"a">>)
    /\ ~ret.raised
    /\ ret.value = "a"
    /\ Len(Data.profiles) = 2
    /\ Data.profiles[1].name = "b"
    /\ Data.profiles[2].name = "c"
    /\ Data.active = "b"
    /\ profiles_file = JsonFile(Data)

====
